---- MODULE Spec2Model ----
(***************************************************************************)
(* DBDash backend: the connection registry of dbManager.js (DBManager),    *)
(* its hot reload, and the query executor, as a state machine.             *)
(*                                                                         *)
(* JavaScript runs every handler to completion up to its next `await`;     *)
(* each action below is one such run-to-completion segment.                *)
(***************************************************************************)
EXTENDS Integers, Sequences, FiniteSets, TLC

\* ---------------------------------------------------------------- bounds
MaxDb == 2          \* highest DB_<n>_ index the .env file may define
MaxReloads == 2     \* POST /reload requests per behaviour
MaxQueries == 2     \* dbManager.query calls per behaviour
MaxIndex == 3       \* highest DB_<n>_ index parseEnvConfigs is tried on
MaxKeys == 2        \* keys of a row payload (req.body.data)
MaxRows == 2        \* rows of a table; highest limit and offset asked for
MaxTicks == 3       \* times the clock is seen to advance

\* ------------------------------------------------------- the environment
Absent == ""        \* process.env[KEY] is undefined (or empty: both falsy)
Null == "<null>"    \* the value null
EmptyObject == <<>> \* the object {}

\* DB_<n>_TYPE values the .env file is drawn from
EnvTypes == {"postgres", "MariaDB", "sqlserver", "oracle"}
\* DB_<n>_ID values the .env file is drawn from
EnvIds == {"a"}

EnvGroups(types) == [TYPE : types \cup {Absent}, ID : EnvIds \cup {Absent}]
EmptyEnv == [n \in 1..MaxDb |-> [TYPE |-> Absent, ID |-> Absent]]

\* String.prototype.toLowerCase on the TYPE values
toLowerCase(s) ==
  CASE s = "MariaDB" -> "mariadb"
    [] s = "MySQL" -> "mysql"
    [] s = "Postgres" -> "postgres"
    [] s = "PostgreSQL" -> "postgresql"
    [] s = "MSSQL" -> "mssql"
    [] s = "SQLServer" -> "sqlserver"
    [] s = "Oracle" -> "oracle"
    [] OTHER -> s

\* dotenv.config({override: true}): every key of the file overwrites
\* process.env; keys that are not in the file keep their old value
reloadEnv(env, file) ==
  [n \in DOMAIN env |->
     [TYPE |-> IF file[n].TYPE # Absent THEN file[n].TYPE ELSE env[n].TYPE,
      ID   |-> IF file[n].ID # Absent THEN file[n].ID ELSE env[n].ID]]

\* process.env[`DB_${index}_${key}`] for the keys that are only passed on to
\* the driver: every group sets HOST, USER, PASSWORD and DATABASE (to values
\* of its own) and leaves PORT and OPTIONS out
EnvValues ==
  [key \in {"HOST", "USER", "PASSWORD", "DATABASE"} |->
     [index \in 1..(MaxDb + MaxIndex) |->
        "<DB_" \o ToString(index) \o "_" \o key \o ">"]]
EnvValue(key, index) == EnvValues[key][index]

\* `db_${index}` and `Database ${index}`, index by index
DefaultIds ==
  [index \in 1..(MaxDb + MaxIndex) |-> "db_" \o ToString(index)]
DefaultNames ==
  [index \in 1..(MaxDb + MaxIndex) |-> "Database " \o ToString(index)]

\* A parser that steps over an absent group and goes on with the next index
RECURSIVE parseFromSkipGaps(_, _)
parseFromSkipGaps(env, index) ==
  IF index \notin DOMAIN env THEN <<>>
  ELSE IF env[index].TYPE = Absent THEN parseFromSkipGaps(env, index + 1)
  ELSE <<[id   |-> IF env[index].ID # Absent THEN env[index].ID
                   ELSE DefaultIds[index],
          name |-> DefaultNames[index],
          type |-> toLowerCase(env[index].TYPE),
          host |-> EnvValue("HOST", index),
          port |-> 0,
          user |-> EnvValue("USER", index),
          password |-> EnvValue("PASSWORD", index),
          database |-> EnvValue("DATABASE", index),
          options |-> EmptyObject]>>
       \o parseFromSkipGaps(env, index + 1)

\* the while loop of parseEnvConfigs from index on
RECURSIVE parseFrom(_, _)
parseFrom(env, index) ==
  IF index \notin DOMAIN env \/ env[index].TYPE = Absent
  THEN <<>>
  ELSE <<[id   |-> IF env[index].ID # Absent THEN env[index].ID
                   ELSE DefaultIds[index],
          name |-> DefaultNames[index],
          type |-> toLowerCase(env[index].TYPE),
          host |-> EnvValue("HOST", index),
          port |-> 0,
          user |-> EnvValue("USER", index),
          password |-> EnvValue("PASSWORD", index),
          database |-> EnvValue("DATABASE", index),
          options |-> EmptyObject]>>
       \o parseFrom(env, index + 1)

parseEnvConfigs(env) == parseFrom(env, 1)

\* ---------------------------------------------------- connection factory
NullConnection == [kind |-> "null", pid |-> 0]

\* A fresh driver pool object
NewPool(kind) == [kind |-> kind, ended |-> FALSE]

\* A factory that refuses to build more than MaxDb + 1 pools in the life of
\* the process (pools are never released)
createConnectionCapped(config, pid) ==
  CASE config.type \in {"postgres", "postgresql", "mysql", "mariadb"}
         /\ pid > MaxDb + 1 ->
         [threw |-> TRUE, message |-> "Too many pools",
          connection |-> NullConnection]
    [] config.type \in {"postgres", "postgresql"} ->
         [threw |-> FALSE, message |-> "",
          connection |-> [kind |-> "pgPool", pid |-> pid]]
    [] config.type \in {"mysql", "mariadb"} ->
         [threw |-> FALSE, message |-> "",
          connection |-> [kind |-> "mysqlPool", pid |-> pid]]
    [] config.type \in {"mssql", "sqlserver"} ->
         [threw |-> FALSE, message |-> "",
          connection |-> [kind |-> "mssqlConfig", pid |-> 0]]
    [] OTHER ->
         [threw |-> TRUE,
          message |-> "Unsupported database type: " \o config.type,
          connection |-> NullConnection]

\* createConnection(config); pid is the identity of the pool object a
\* `new Pool` / `mysql.createPool` would allocate
createConnection(config, pid) ==
  CASE config.type \in {"postgres", "postgresql"} ->
         [threw |-> FALSE, message |-> "",
          connection |-> [kind |-> "pgPool", pid |-> pid]]
    [] config.type \in {"mysql", "mariadb"} ->
         [threw |-> FALSE, message |-> "",
          connection |-> [kind |-> "mysqlPool", pid |-> pid]]
    [] config.type \in {"mssql", "sqlserver"} ->
         [threw |-> FALSE, message |-> "",
          connection |-> [kind |-> "mssqlConfig", pid |-> 0]]
    [] OTHER ->
         [threw |-> TRUE,
          message |-> "Unsupported database type: " \o config.type,
          connection |-> NullConnection]

\* ------------------------------------------------------------- registry
\* this.connections is a Map: insertion ordered, set() on a present key
\* replaces the value in place
MapHas(m, id) == \E i \in 1..Len(m) : m[i].id = id
MapIndex(m, id) == CHOOSE i \in 1..Len(m) : m[i].id = id
MapSet(m, entry) ==
  IF MapHas(m, entry.id)
  THEN [m EXCEPT ![MapIndex(m, entry.id)] = entry]
  ELSE Append(m, entry)
MapGet(m, id) == m[MapIndex(m, id)]

\* { ...config, connection, status [, error] }: the object set() stores
Entry(config, connection, status, error, gen) ==
  [id |-> config.id, name |-> config.name, type |-> config.type,
   host |-> config.host, port |-> config.port, user |-> config.user,
   password |-> config.password, database |-> config.database,
   options |-> config.options, connection |-> connection,
   status |-> status, error |-> error,
   gen |-> gen]

\* A forEach callback whose catch block only logs (stores no entry)
InitOneDropFailed(st, config, gen) ==
  LET r == createConnection(config, Len(st.pools) + 1) IN
  IF ~r.threw
  THEN [conns |-> MapSet(st.conns,
                    Entry(config, r.connection, "connected", "", gen)),
        pools |-> IF r.connection.pid # 0
                  THEN Append(st.pools, NewPool(r.connection.kind))
                  ELSE st.pools]
  ELSE st

\* The body of the forEach callback of initializeConnections; gen tags the
\* entry objects of one initializeConnections run (object identity)
InitOne(st, config, gen) ==
  LET r == createConnection(config, Len(st.pools) + 1) IN
  IF ~r.threw
  THEN [conns |-> MapSet(st.conns,
                    Entry(config, r.connection, "connected", "", gen)),
        pools |-> IF r.connection.pid # 0
                  THEN Append(st.pools, NewPool(r.connection.kind))
                  ELSE st.pools]
  ELSE [conns |-> MapSet(st.conns,
                    Entry(config, NullConnection, "error", r.message, gen)),
        pools |-> st.pools]

\* A loop with the try/catch around it instead of inside it: the first
\* createConnection that throws ends the loop, nothing is stored for it
RECURSIVE ForEachConfigAbort(_, _, _)
ForEachConfigAbort(st, configs, gen) ==
  IF configs = <<>> THEN st
  ELSE IF createConnection(Head(configs), Len(st.pools) + 1).threw THEN st
  ELSE ForEachConfigAbort(InitOneDropFailed(st, Head(configs), gen),
                          Tail(configs), gen)

RECURSIVE ForEachConfig(_, _, _)
ForEachConfig(st, configs, gen) ==
  IF configs = <<>> THEN st
  ELSE ForEachConfig(InitOne(st, Head(configs), gen), Tail(configs), gen)

\* initializeConnections(): reloadEnv(), parseEnvConfigs(), then the forEach
initializeConnections(conns, ps, env, file, gen) ==
  LET env2 == reloadEnv(env, file)
      st == ForEachConfig([conns |-> conns, pools |-> ps],
                          parseEnvConfigs(env2), gen) IN
  [conns |-> st.conns, pools |-> st.pools, env |-> env2]

getConnectionCount(conns) == Len(conns)

\* getAllConnections(): the projection of every entry, in Map order
\* A projection that hands out the registry entry itself
ProjectWholeEntry(db) == db

\* the element getAllConnections makes of one entry; error: db.error || null
Project(db) ==
  [id |-> db.id, name |-> db.name, type |-> db.type, status |-> db.status,
   error |-> IF db.error # Absent THEN db.error ELSE Null]
getAllConnections(conns) == [i \in 1..Len(conns) |-> Project(conns[i])]

NullEntry ==
  [id |-> "", name |-> "", type |-> "", host |-> "", port |-> 0,
   user |-> "", password |-> "", database |-> "",
   options |-> EmptyObject,
   connection |-> NullConnection, status |-> "", error |-> "", gen |-> 0]

\* A getConnection without the status check
getConnectionNoStatusCheck(conns, dbId) ==
  IF ~MapHas(conns, dbId)
  THEN [threw |-> TRUE, message |-> "Database " \o dbId \o " not found",
        db |-> NullEntry]
  ELSE [threw |-> FALSE, message |-> "", db |-> MapGet(conns, dbId)]

\* getConnection(dbId): the entry, or the Error it throws
getConnection(conns, dbId) ==
  IF ~MapHas(conns, dbId)
  THEN [threw |-> TRUE, message |-> "Database " \o dbId \o " not found",
        db |-> NullEntry]
  ELSE LET db == MapGet(conns, dbId) IN
       IF db.status # "connected"
       THEN [threw |-> TRUE,
             message |-> "Database " \o dbId \o " is not connected: "
                         \o (IF db.error # "" THEN db.error
                             ELSE "Unknown error"),
             db |-> NullEntry]
       ELSE [threw |-> FALSE, message |-> "", db |-> db]

\* ---------------------------------------------------------------- close
\* pool.end() of the driver: the pool object is ended from the call on
PoolEnd(ps, pid) == [ps EXCEPT ![pid].ended = TRUE]

\* A closeConnection without the try/catch: a rejected end() propagates
closeConnectionNoCatch(db, ps, endFails) ==
  IF db.connection.kind = "null"
  THEN [threw |-> FALSE, pools |-> ps, end |-> "none", caught |-> FALSE]
  ELSE IF db.type \in {"postgres", "postgresql", "mysql", "mariadb"}
  THEN [threw |-> endFails, pools |-> PoolEnd(ps, db.connection.pid),
        end |-> "called", caught |-> FALSE]
  ELSE [threw |-> FALSE, pools |-> ps, end |-> "none", caught |-> FALSE]

\* A closeConnection whose switch lacks the mysql/mariadb case
closeConnectionPgOnly(db, ps, endFails) ==
  IF db.connection.kind = "null"
  THEN [threw |-> FALSE, pools |-> ps, end |-> "none", caught |-> FALSE]
  ELSE IF db.type \in {"postgres", "postgresql"}
  THEN [threw |-> FALSE, pools |-> PoolEnd(ps, db.connection.pid),
        end |-> "called", caught |-> endFails]
  ELSE [threw |-> FALSE, pools |-> ps, end |-> "none", caught |-> FALSE]

\* closeConnection(db), up to and including the settling of connection.end();
\* endFails: the promise of end() rejects.  The try/catch swallows it.
closeConnection(db, ps, endFails) ==
  IF db.connection.kind = "null"
  THEN [threw |-> FALSE, pools |-> ps, end |-> "none", caught |-> FALSE]
  ELSE IF db.type \in {"postgres", "postgresql", "mysql", "mariadb"}
  THEN [threw |-> FALSE, pools |-> PoolEnd(ps, db.connection.pid),
        end |-> "called", caught |-> endFails]
  ELSE [threw |-> FALSE, pools |-> ps, end |-> "none", caught |-> FALSE]

\* this.connections.clear()
MapClear(m) == <<>>

\* A reload that clears and leaves re-population to a later turn
ReloadTailClearOnly(conns, ps, env, file, gen) ==
  [conns |-> MapClear(conns), pools |-> ps, env |-> reloadEnv(env, file)]

\* A reload that initializes first and clears afterwards
ReloadTailClearLast(conns, ps, env, file, gen) ==
  LET st == initializeConnections(conns, ps, reloadEnv(env, file), file, gen)
  IN [conns |-> MapClear(st.conns), pools |-> st.pools, env |-> st.env]

\* A reload that re-populates the registry only when it finds it empty
ReloadTailKeepOld(conns, ps, env, file, gen) ==
  IF conns = <<>>
  THEN initializeConnections(MapClear(conns), ps, reloadEnv(env, file), file,
                             gen)
  ELSE [conns |-> conns, pools |-> ps, env |-> reloadEnv(env, file)]

\* reloadConnections() after its for-await loop: clear, reloadEnv,
\* initializeConnections -- one synchronous stretch, no await in it
ReloadTail(conns, ps, env, file, gen) ==
  initializeConnections(MapClear(conns), ps, reloadEnv(env, file), file, gen)

\* ---------------------------------------------------------------- query
\* errors a driver call may reject with; an AggregateError (connection
\* refused on every address) carries an empty message
DriverErrors ==
  {[name |-> "Error", message |-> "syntax error"],
   [name |-> "AggregateError", message |-> ""]}

\* Error.prototype.toString
toString(err) ==
  IF err.message = "" THEN err.name
  ELSE IF err.name = "" THEN err.message
  ELSE err.name \o ": " \o err.message

\* error.message || error.toString() || 'Unknown error'
errorMsg(err) ==
  IF err.message # "" THEN err.message
  ELSE IF toString(err) # "" THEN toString(err)
  ELSE "Unknown error"

\* the catch block of query(): throw new Error(`Query failed: ${errorMsg}`)
WrapQueryError(err) ==
  [settled |-> TRUE, threw |-> TRUE,
   message |-> "Query failed: " \o errorMsg(err)]

\* A query() whose getConnection call sits inside the try block
QueryLookupWrapped(conns, dbId) ==
  LET g == getConnection(conns, dbId) IN
  [threw |-> g.threw,
   message |-> IF g.threw THEN "Query failed: " \o g.message ELSE "",
   db |-> g.db]

\* const db = await this.getConnection(dbId), outside the try block: what
\* getConnection throws leaves query() as it is
QueryLookup(conns, dbId) ==
  LET g == getConnection(conns, dbId) IN
  [threw |-> g.threw, message |-> g.message, db |-> g.db]

\* !connection || connection.ended, negated
PgUsable(db, ps) ==
  /\ db.connection.kind # "null"
  /\ ~ps[db.connection.pid].ended

\* ------------------------------------------------ descriptor options (JSON)
\* a JavaScript object is a function from its keys to their values
\* { ...a, ...b }: the keys of b win
Spread(a, b) ==
  [k \in DOMAIN a \cup DOMAIN b |-> IF k \in DOMAIN b THEN b[k] ELSE a[k]]

\* DB_<n>_OPTIONS values a .env file may hold
OptionStrings ==
  {Absent, "{}", "{\"encrypt\":false}", "{\"encrypt\":true}",
   "{\"trustServerCertificate\":false}",
   "{\"trustServerCertificate\":true}",
   "{\"encrypt\":false,\"trustServerCertificate\":false}",
   "{\"encrypt\":true,\"trustServerCertificate\":false}",
   "{encrypt:false}"}

\* JSON.parse on the option strings; "{encrypt:false}" is not JSON
JSONParse(str) ==
  CASE str = "{}" -> [threw |-> FALSE, value |-> EmptyObject]
    [] str = "{\"encrypt\":false}" ->
         [threw |-> FALSE, value |-> [encrypt |-> FALSE]]
    [] str = "{\"encrypt\":true}" ->
         [threw |-> FALSE, value |-> [encrypt |-> TRUE]]
    [] str = "{\"trustServerCertificate\":false}" ->
         [threw |-> FALSE, value |-> [trustServerCertificate |-> FALSE]]
    [] str = "{\"trustServerCertificate\":true}" ->
         [threw |-> FALSE, value |-> [trustServerCertificate |-> TRUE]]
    [] str = "{\"encrypt\":false,\"trustServerCertificate\":false}" ->
         [threw |-> FALSE,
          value |-> [encrypt |-> FALSE, trustServerCertificate |-> FALSE]]
    [] str = "{\"encrypt\":true,\"trustServerCertificate\":false}" ->
         [threw |-> FALSE,
          value |-> [encrypt |-> TRUE, trustServerCertificate |-> FALSE]]
    [] OTHER -> [threw |-> TRUE, value |-> EmptyObject]

\* parseEnvConfigs: options: {} unless DB_<n>_OPTIONS holds valid JSON
ParseOptions(optionsStr) ==
  IF optionsStr = Absent THEN EmptyObject
  ELSE LET p == JSONParse(optionsStr) IN
       IF p.threw THEN EmptyObject ELSE p.value

\* createConnection, mssql branch: the options of the config it returns
MssqlOptions(options) ==
  Spread([encrypt |-> IF "encrypt" \in DOMAIN options
                      THEN options.encrypt # FALSE ELSE TRUE,
          trustServerCertificate |-> TRUE],
         options)

\* ------------------------------------------------------ statement builders
RECURSIVE Join(_, _)
\* Array.prototype.join
Join(strs, sep) ==
  IF strs = <<>> THEN ""
  ELSE IF Len(strs) = 1 THEN strs[1]
  ELSE strs[1] \o sep \o Join(Tail(strs), sep)

IsPostgres(type) == type \in {"postgres", "postgresql"}
IsMysql(type) == type \in {"mysql", "mariadb"}
IsMssql(type) == type \in {"mssql", "sqlserver"}

\* Object.keys(data) / Object.values(data): data is the sequence of the
\* key/value pairs of the payload, in insertion order
ObjectKeys(data) == [i \in 1..Len(data) |-> data[i].key]
ObjectValues(data) == [i \in 1..Len(data) |-> data[i].value]

\* getTables(dbId): the statement and parameters it hands to query()
getTables(type, database) ==
  CASE IsPostgres(type) ->
         [threw |-> FALSE, message |-> "",
          text |-> "SELECT table_name as name, table_schema as schema "
                   \o "FROM information_schema.tables "
                   \o "WHERE table_schema NOT IN "
                   \o "('pg_catalog', 'information_schema') "
                   \o "ORDER BY table_schema, table_name",
          params |-> <<>>]
    [] IsMysql(type) ->
         [threw |-> FALSE, message |-> "",
          text |-> "SELECT table_name as name, table_schema as schema "
                   \o "FROM information_schema.tables "
                   \o "WHERE table_schema = ? ORDER BY table_name",
          params |-> <<database>>]
    [] IsMssql(type) ->
         [threw |-> FALSE, message |-> "",
          text |-> "SELECT table_name as name, table_schema as schema "
                   \o "FROM information_schema.tables "
                   \o "WHERE table_type = 'BASE TABLE' "
                   \o "ORDER BY table_schema, table_name",
          params |-> <<>>]
    [] OTHER ->
         [threw |-> TRUE, message |-> "Unsupported database type: " \o type,
          text |-> "", params |-> <<>>]

ColumnSelect ==
  "SELECT column_name as name, data_type as type, is_nullable as nullable, "
  \o "column_default as default_value FROM information_schema.columns "

\* getTableSchema(dbId, tableName, schema = null): the statement and
\* parameters it hands to query(); schema Absent is null
getTableSchema(type, database, tableName, schema) ==
  CASE IsPostgres(type) ->
         [threw |-> FALSE, message |-> "",
          text |-> ColumnSelect
                   \o "WHERE table_schema = COALESCE($1, 'public') "
                   \o "AND table_name = $2 ORDER BY ordinal_position",
          params |-> <<IF schema # Absent THEN schema ELSE "public",
                       tableName>>]
    [] IsMysql(type) ->
         [threw |-> FALSE, message |-> "",
          text |-> ColumnSelect
                   \o "WHERE table_schema = ? AND table_name = ? "
                   \o "ORDER BY ordinal_position",
          params |-> <<database, tableName>>]
    [] IsMssql(type) ->
         [threw |-> FALSE, message |-> "",
          text |-> ColumnSelect
                   \o "WHERE table_schema = COALESCE(?, 'dbo') "
                   \o "AND table_name = ? ORDER BY ordinal_position",
          params |-> <<IF schema # Absent THEN schema ELSE "dbo",
                       tableName>>]
    [] OTHER ->
         [threw |-> TRUE, message |-> "Unsupported database type: " \o type,
          text |-> "", params |-> <<>>]

\* GET /:dbId/tables/:tableName/data: tableRef
TableRef(type, tableName, schema) ==
  IF schema # Absent /\ (IsPostgres(type) \/ IsMssql(type))
  THEN schema \o "." \o tableName
  ELSE tableName

\* A data route whose mssql test reads type === 'mssql' only
DataQueryNoAlias(type, tableName, schema, limit, offset) ==
  LET tableRef == TableRef(type, tableName, schema) IN
  [text |->
     CASE type = "mssql" ->
            "SELECT TOP " \o ToString(limit) \o " * FROM " \o tableRef
            \o " OFFSET " \o ToString(offset) \o " ROWS"
       [] IsPostgres(type) ->
            "SELECT * FROM " \o tableRef \o " LIMIT $1 OFFSET $2"
       [] OTHER ->
            "SELECT * FROM " \o tableRef \o " LIMIT ? OFFSET ?",
   params |-> <<limit, offset>>]

\* GET /:dbId/tables/:tableName/data: finalQuery and params
DataQuery(type, tableName, schema, limit, offset) ==
  LET tableRef == TableRef(type, tableName, schema) IN
  [text |->
     CASE IsMssql(type) ->
            "SELECT TOP " \o ToString(limit) \o " * FROM " \o tableRef
            \o " OFFSET " \o ToString(offset) \o " ROWS"
       [] IsPostgres(type) ->
            "SELECT * FROM " \o tableRef \o " LIMIT $1 OFFSET $2"
       [] OTHER ->
            "SELECT * FROM " \o tableRef \o " LIMIT ? OFFSET ?",
   params |-> <<limit, offset>>]

\* the keys of data that name a column of the table, in payload order
RECURSIVE FilterKeys(_, _)
FilterKeys(keys, columns) ==
  IF keys = <<>> THEN <<>>
  ELSE (IF \E c \in 1..Len(columns) : columns[c] = Head(keys)
        THEN <<Head(keys)>> ELSE <<>>)
       \o FilterKeys(Tail(keys), columns)

\* PUT /:dbId/tables/:tableName/row: query and params.  The keys are
\* filtered by the columns of the table; Object.values(data) is not.
UpdateQuery(type, tableName, primaryKey, primaryValue, data, columns) ==
  LET keys == FilterKeys(ObjectKeys(data), columns)
      setClause ==
        Join([idx \in 1..Len(keys) |->
                keys[idx] \o " = "
                \o (IF IsPostgres(type) THEN "$" \o ToString(idx) ELSE "?")],
             ", ")
      values == ObjectValues(data)
      whereClause ==
        IF IsPostgres(type)
        THEN primaryKey \o " = $" \o ToString(Len(values) + 1)
        ELSE primaryKey \o " = ?" IN
  [text |-> "UPDATE " \o tableName \o " SET " \o setClause
            \o " WHERE " \o whereClause,
   params |-> Append(values, primaryValue),
   \* for each placeholder of the text, left to right, the position in
   \* params the driver takes its value from ($n: the n-th, ?: the next)
   binds |-> [i \in 1..(Len(keys) + 1) |->
                IF IsPostgres(type) /\ i = Len(keys) + 1
                THEN Len(values) + 1 ELSE i]]

\* POST /:dbId/tables/:tableName/row: query and params
InsertQuery(type, tableName, data) ==
  LET columns == ObjectKeys(data)
      values == ObjectValues(data)
      placeholders ==
        Join([i \in 1..Len(values) |->
                IF IsPostgres(type) THEN "$" \o ToString(i) ELSE "?"],
             ", ") IN
  [text |-> "INSERT INTO " \o tableName \o " (" \o Join(columns, ", ")
            \o ") VALUES (" \o placeholders \o ")",
   params |-> values]

\* DELETE /:dbId/tables/:tableName/row: query and params
DeleteQuery(type, tableName, primaryKey, primaryValue) ==
  [text |-> "DELETE FROM " \o tableName \o " WHERE " \o primaryKey \o " = "
            \o (IF IsPostgres(type) THEN "$1" ELSE "?"),
   params |-> <<primaryValue>>]

\* query(dbId, sqlQuery, params): the driver call of the switch.  The mssql
\* branch calls pool.request().query(sqlQuery): params goes nowhere.
DriverCall(type, sqlQuery, params) ==
  CASE IsPostgres(type) ->
         [fn |-> "pg.query", text |-> sqlQuery, params |-> params]
    [] IsMysql(type) ->
         [fn |-> "mysql.execute", text |-> sqlQuery, params |-> params]
    [] IsMssql(type) ->
         [fn |-> "mssql.query", text |-> sqlQuery, params |-> <<>>]
    [] OTHER ->
         [fn |-> "none", text |-> "", params |-> <<>>]

\* ---------------------------------------------------------------- state
Reloads == 1..MaxReloads

\* database ids requests ask for: an explicit DB_<n>_ID, a default id, and
\* one that no file configures
ReqIds == EnvIds \cup {"db_1", "zz"}

\* DB_<n>_TYPE values of the files the read requests run against: one that
\* connects and one that createConnection rejects
ReqEnvTypes == {"postgres", "oracle"}

NoObs ==
  [op |-> "none", id |-> "", threw |-> FALSE, message |-> "",
   db |-> NullEntry, list |-> <<>>, during |-> {}]

NoResp == [status |-> 0, databases |-> <<>>]

NoFail == [r |-> 0, at |-> 0]

NoProj == [set |-> FALSE, list |-> <<>>]

NoCause == [from |-> "none", name |-> "", message |-> ""]
NoResult == [settled |-> FALSE, threw |-> FALSE, message |-> ""]

NoFn == [op |-> "none"]

\* ------------------------------------------------------- login (auth.js)
MAX_ATTEMPTS == 5
WINDOW_MS == 15 * 60 * 1000

\* req.ip of the clients that log in
ClientIps == {"10.0.0.1", "10.0.0.2"}
\* req.body.password: missing, wrong, and the configured one
Passwords == {Absent, "guess", "hunter2"}
\* process.env.PASSWORD and process.env.JWT_SECRET of the server
LoginConfigs ==
  {[PASSWORD |-> "hunter2", JWT_SECRET |-> "s3cret"],
   [PASSWORD |-> Absent, JWT_SECRET |-> "s3cret"],
   [PASSWORD |-> "hunter2", JWT_SECRET |-> "your-secret-key-change-this"]}
Configured == [PASSWORD |-> "hunter2", JWT_SECRET |-> "s3cret"]

\* loginAttempts.get(clientIp) is undefined
NoAttempts == [set |-> FALSE, count |-> 0, resetTime |-> 0]
NoAnswer == [status |-> 0, token |-> Absent, error |-> ""]

\* a server nobody has logged in to yet
NoLogin(cfg) ==
  [cfg |-> cfg,
   attempts |-> [ip \in ClientIps |-> NoAttempts],
   now |-> 0,
   ticks |-> 0,
   pc |-> "idle",
   req |-> [ip |-> "", password |-> Absent],
   resp |-> NoAnswer,
   \* per client: the 401 answers it got in a row, none of them more than
   \* WINDOW_MS after the first, and when the first of them was given
   failed |-> [ip \in ClientIps |-> [count |-> 0, since |-> 0]]]

\* jwt.sign({authenticated: true}, JWT_SECRET, {expiresIn: '7d'})
JwtSign(secret) == "jwt<" \o secret \o ">"

\* A handler that checks the password before it looks at the counter
loginHandlerPasswordFirst(cfg, attempts, now, clientIp, password) ==
  IF cfg.PASSWORD = Absent
     \/ cfg.JWT_SECRET \in {Absent, "your-secret-key-change-this"}
  THEN [status |-> 500, token |-> Absent,
        error |-> "Server configuration error", attempts |-> attempts]
  ELSE IF password # Absent /\ password = cfg.PASSWORD
  THEN [status |-> 200, token |-> JwtSign(cfg.JWT_SECRET), error |-> "",
        attempts |-> [attempts EXCEPT ![clientIp] = NoAttempts]]
  ELSE IF attempts[clientIp].set /\ attempts[clientIp].count >= MAX_ATTEMPTS
          /\ ~(attempts[clientIp].resetTime < now)
  THEN [status |-> 429, token |-> Absent,
        error |-> "Too many login attempts. Please try again later.",
        attempts |-> attempts]
  ELSE [status |-> 401, token |-> Absent, error |-> "Invalid password",
        attempts |->
          [attempts EXCEPT ![clientIp] =
             IF @.set /\ ~(@.resetTime < now)
             THEN [@ EXCEPT !.count = @ + 1]
             ELSE [set |-> TRUE, count |-> 1, resetTime |-> now + WINDOW_MS]]]

\* router.post('/login'): the whole handler; what it answers and the
\* loginAttempts map it leaves
loginHandler(cfg, attempts, now, clientIp, password) ==
  IF cfg.PASSWORD = Absent
  THEN [status |-> 500, token |-> Absent,
        error |-> "Server configuration error", attempts |-> attempts]
  ELSE IF cfg.JWT_SECRET \in {Absent, "your-secret-key-change-this"}
  THEN [status |-> 500, token |-> Absent,
        error |-> "Server configuration error", attempts |-> attempts]
  ELSE
    LET \* loginAttempts.get(clientIp) || { count: 0, resetTime: ... }
        stored == attempts[clientIp].set
        got == IF stored THEN attempts[clientIp]
               ELSE [set |-> FALSE, count |-> 0,
                     resetTime |-> now + WINDOW_MS]
        \* if (attempts.resetTime < now): the object is changed in place,
        \* so a stored one changes in the map as well
        rolled == IF got.resetTime < now
                  THEN [got EXCEPT !.count = 0,
                                   !.resetTime = now + WINDOW_MS]
                  ELSE got
        map == IF stored THEN [attempts EXCEPT ![clientIp] = rolled]
               ELSE attempts
    IN
    IF rolled.count >= MAX_ATTEMPTS
    THEN [status |-> 429, token |-> Absent,
          error |-> "Too many login attempts. Please try again later.",
          attempts |-> map]
    ELSE IF password = Absent \/ password # cfg.PASSWORD
    THEN [status |-> 401, token |-> Absent, error |-> "Invalid password",
          attempts |->
            [map EXCEPT ![clientIp] =
               [set |-> TRUE, count |-> rolled.count + 1,
                resetTime |-> rolled.resetTime]]]
    ELSE [status |-> 200, token |-> JwtSign(cfg.JWT_SECRET), error |-> "",
          attempts |-> [map EXCEPT ![clientIp] = NoAttempts]]

\* no request: nothing called, nothing sent to a driver, nothing answered
NoWeb ==
  [pc |-> "idle", route |-> "none",
   auth |-> [header |-> "", secret |-> ""], type |-> "", database |-> "",
   req |-> <<>>, calls |-> <<>>, sent |-> <<>>, columns |-> <<>>,
   status |-> 0, body |-> <<>>]

VARIABLES
  envFile,      \* the .env file: DB_<n>_TYPE / DB_<n>_ID per index
  procEnv,      \* process.env
  connections,  \* dbManager.connections
  pools,        \* every pool object ever created, by identity
  booted,       \* server.js has run dbManager.initializeConnections()
  epoch,        \* number of initializeConnections runs so far
  rpc,          \* per POST /reload: where its handler is suspended
  riter,        \* per POST /reload: position of the Map iterator of line 53
  rlog,         \* per POST /reload: the entries it passed to closeConnection
                \* since the registry was last cleared, then its own clear
  endFail,      \* a reload in flight whose first closeConnection saw end()
                \* reject, and the position of that close in its rlog
  rstart,       \* per POST /reload: the entries that were in the registry
                \* when it began and that it has not passed to closeConnection
                \* (once another reload has cleared them away: the last one)
  rprev,        \* per POST /reload: lastProj when the reload began
  lastProj,     \* getAllConnections() as of the latest reload that resolved
  rresp,        \* per POST /reload: the HTTP response
  obs,          \* what the request served in the last step was answered
  qpc,          \* dbManager.query: where the call in flight is suspended
  qid,          \* dbManager.query: the dbId of the latest call
  qdb,          \* dbManager.query: the entry getConnection returned to it
  qcalled,      \* dbManager.query: driver functions the latest call invoked
  qcause,       \* dbManager.query: the error that made the latest call fail
  qres,         \* dbManager.query: how the latest call settled
  qcount,       \* dbManager.query calls so far
  openConns,    \* mssql connections opened by sql.connect and not closed
  web,          \* the /api/databases request being served, and its answer
  login,        \* routes/auth.js POST /login: loginAttempts, the clock, the
                \* request being served and its answer
  fn            \* the latest call of a function on a given input: its
                \* input and what it returned

qvars == <<qpc, qid, qdb, qcalled, qcause, qres, qcount, openConns>>

vars == <<envFile, procEnv, connections, pools, booted, epoch,
          rpc, riter, rlog, endFail, rstart, rprev, lastProj, rresp, obs,
          qpc, qid, qdb, qcalled, qcause, qres, qcount, openConns, web,
          login, fn>>

\* types: the DB_<n>_TYPE values of the .env file; cfgs: the PASSWORD and
\* JWT_SECRET settings the server may run with
InitAll(types, cfgs) ==
  /\ envFile \in [1..MaxDb -> EnvGroups(types)]
  \* files that differ only in keys parseEnvConfigs never reads are one case
  /\ \A n \in 2..MaxDb : envFile[n].TYPE # Absent => envFile[n - 1].TYPE # Absent
  /\ \A n \in 1..MaxDb : envFile[n].TYPE = Absent => envFile[n].ID = Absent
  /\ procEnv = EmptyEnv
  /\ connections = <<>>
  /\ pools = <<>>
  /\ booted = FALSE
  /\ epoch = 0
  /\ rpc = [r \in Reloads |-> "idle"]
  /\ riter = [r \in Reloads |-> 0]
  /\ rlog = [r \in Reloads |-> <<>>]
  /\ endFail = NoFail
  /\ rstart = [r \in Reloads |-> <<>>]
  /\ rprev = [r \in Reloads |-> NoProj]
  /\ lastProj = NoProj
  /\ rresp = [r \in Reloads |-> NoResp]
  /\ obs = NoObs
  /\ qpc = "idle"
  /\ qid = ""
  /\ qdb = NullEntry
  /\ qcalled = {}
  /\ qcause = NoCause
  /\ qres = NoResult
  /\ qcount = 0
  /\ openConns = 0
  /\ web = NoWeb
  /\ fn = NoFn
  /\ \E cfg \in cfgs : login = NoLogin(cfg)

InitWith(types) == InitAll(types, {Configured})

Init == InitWith(EnvTypes)
InitReq == InitWith(ReqEnvTypes)
\* an empty .env file
InitFn == InitWith({})

\* server.js: dbManager.initializeConnections()
Boot ==
  /\ ~booted
  /\ LET st == initializeConnections(connections, pools, procEnv, envFile,
                                     epoch + 1) IN
       /\ procEnv' = st.env
       /\ connections' = st.conns
       /\ pools' = st.pools
  /\ booted' = TRUE
  /\ epoch' = epoch + 1
  /\ obs' = NoObs
  /\ UNCHANGED <<web, fn, envFile, rpc, riter, rlog, endFail, rstart, rprev, lastProj,
                 rresp>>
  /\ UNCHANGED <<qvars, login>>

\* reloadConnections() of reload r from the top of its for-of loop, with the
\* Map iterator at idx, up to the next await (or to the end of the function);
\* start: the entries present when r began that r has not closed yet;
\* hist: the history variables (among endFail, rstart, rprev) to record
RunLoop(r, idx, start, hist) ==
  IF idx <= Len(connections)
  THEN \E endFails \in BOOLEAN :
         LET db == connections[idx]
             res == closeConnection(db, pools, endFails) IN
         /\ pools' = res.pools
         /\ rlog' = [rlog EXCEPT ![r] =
                       Append(@, [op |-> "close", db |-> db, end |-> res.end,
                                  cleared |-> <<>>, after |-> <<>>])]
         /\ rpc' = [rpc EXCEPT ![r] =
                      IF res.threw THEN "rejected" ELSE "closing"]
         /\ riter' = [riter EXCEPT ![r] = idx + 1]
         /\ rstart' = IF "rstart" \in hist
                       THEN [rstart EXCEPT ![r] =
                               SelectSeq(start, LAMBDA e : e # db)]
                       ELSE rstart
         /\ endFail' = IF "endFail" \in hist /\ endFail.r = 0
                           /\ res.caught /\ rlog[r] = <<>>
                        THEN [r |-> r, at |-> 1]
                        ELSE endFail
         /\ UNCHANGED <<connections, procEnv, epoch, lastProj>>
  ELSE LET st == ReloadTail(connections, pools, procEnv, envFile, epoch + 1) IN
         /\ connections' = st.conns
         /\ pools' = st.pools
         /\ procEnv' = st.env
         /\ epoch' = epoch + 1
         /\ rlog' = [q \in Reloads |->
                       IF q = r
                       THEN Append(rlog[r],
                                   [op |-> "clear+init", db |-> NullEntry,
                                    end |-> "none", cleared |-> connections,
                                    after |-> st.conns])
                       ELSE IF rpc[q] = "closing" THEN <<>> ELSE rlog[q]]
         /\ lastProj' = [set |-> TRUE, list |-> getAllConnections(st.conns)]
         /\ rpc' = [rpc EXCEPT ![r] = "resolved"]
         \* clear() empties the entry list under every live iterator: each
         \* one goes on with the entries set after the clear
         /\ riter' = [q \in Reloads |->
                        IF q # r /\ rpc[q] = "closing" THEN 1 ELSE riter[q]]
         \* of the start entries another reload never got to close before
         \* this clear removed them, the last one is kept: one tells it all
         /\ rstart' = IF "rstart" \in hist
                       THEN [q \in Reloads |->
                               IF q = r THEN start
                               ELSE IF rpc[q] = "closing" /\ rstart[q] # <<>>
                               THEN <<rstart[q][Len(rstart[q])]>>
                               ELSE rstart[q]]
                       ELSE rstart
         /\ endFail' = IF endFail.r # r /\ endFail.r # 0
                           /\ rpc[endFail.r] = "closing"
                        THEN NoFail ELSE endFail

\* POST /reload arrives: reloadConnections() runs to its first await
ReloadStart(r, hist) ==
  /\ booted
  /\ rpc[r] = "idle"
  /\ r > 1 => rpc[r - 1] # "idle"
  /\ rprev' = IF "rprev" \in hist
              THEN [rprev EXCEPT ![r] = lastProj] ELSE rprev
  /\ RunLoop(r, 1, connections, hist)
  /\ obs' = NoObs
  /\ UNCHANGED <<web, fn, envFile, booted, rresp>>
  /\ UNCHANGED <<qvars, login>>

\* the awaited closeConnection() promise has settled: the loop goes on
ReloadResume(r, hist) ==
  /\ rpc[r] = "closing"
  /\ RunLoop(r, riter[r], rstart[r], hist)
  /\ obs' = NoObs
  /\ UNCHANGED <<web, fn, envFile, booted, rprev, rresp>>
  /\ UNCHANGED <<qvars, login>>

\* routes/databases.js POST /reload after `await reloadConnections()`
ReloadRespond(r) ==
  /\ rpc[r] \in {"resolved", "rejected"}
  /\ rresp' = [rresp EXCEPT ![r] =
                 IF rpc[r] = "resolved"
                 THEN [status |-> 200,
                       databases |-> getAllConnections(connections)]
                 ELSE [status |-> 500, databases |-> <<>>]]
  /\ rpc' = [rpc EXCEPT ![r] = "done"]
  \* the call is over: its iterator and its record go away
  /\ riter' = [riter EXCEPT ![r] = 0]
  /\ rlog' = [rlog EXCEPT ![r] = <<>>]
  /\ endFail' = IF endFail.r = r THEN NoFail ELSE endFail
  /\ rstart' = [rstart EXCEPT ![r] = <<>>]
  /\ rprev' = [rprev EXCEPT ![r] = NoProj]
  /\ obs' = NoObs
  /\ UNCHANGED <<web, fn, envFile, procEnv, connections, pools, booted, epoch,
                 lastProj>>
  /\ UNCHANGED <<qvars, login>>

\* reloads suspended inside reloadConnections right now
Reloading == {r \in Reloads : rpc[r] = "closing"}

\* a request handler calls dbManager.getConnection(dbId)
GetConnectionReq(dbId) ==
  /\ booted
  /\ LET res == getConnection(connections, dbId) IN
       obs' = [op |-> "getConnection", id |-> dbId, threw |-> res.threw,
               message |-> res.message, db |-> res.db, list |-> <<>>,
               during |-> Reloading]
  /\ UNCHANGED <<web, fn, envFile, procEnv, connections, pools, booted, epoch,
                 rpc, riter, rlog, endFail, rstart, rprev, lastProj, rresp>>
  /\ UNCHANGED <<qvars, login>>

\* GET /api/databases: dbManager.getAllConnections()
GetAllReq ==
  /\ booted
  /\ obs' = [NoObs EXCEPT !.op = "getAllConnections",
                          !.list = getAllConnections(connections),
                          !.during = Reloading]
  /\ UNCHANGED <<web, fn, envFile, procEnv, connections, pools, booted, epoch,
                 rpc, riter, rlog, endFail, rstart, rprev, lastProj, rresp>>
  /\ UNCHANGED <<qvars, login>>

\* query(dbId, sqlQuery, params) is called: getConnection, then the await
QueryStart(dbId) ==
  /\ booted
  /\ qpc = "idle"
  /\ qcount < MaxQueries
  /\ LET g == QueryLookup(connections, dbId) IN
       /\ qpc' = IF g.threw THEN "idle" ELSE "lookedUp"
       /\ qdb' = g.db
       /\ qres' = IF g.threw
                  THEN [settled |-> TRUE, threw |-> TRUE, message |-> g.message]
                  ELSE NoResult
       /\ qcause' = IF g.threw
                    THEN [from |-> "lookup", name |-> "Error",
                          message |-> getConnection(connections, dbId).message]
                    ELSE NoCause
  /\ qid' = dbId
  /\ qcalled' = {}
  /\ qcount' = qcount + 1
  /\ UNCHANGED <<web, fn, envFile, procEnv, connections, pools, booted, epoch,
                 rpc, riter, rlog, endFail, rstart, rprev, lastProj, rresp,
                 obs, openConns>>
  /\ UNCHANGED login

\* the try block up to its first await: the switch on the entry's type
QueryDispatch ==
  /\ qpc = "lookedUp"
  /\ CASE qdb.type \in {"postgres", "postgresql"} ->
            IF PgUsable(qdb, pools)
            THEN /\ qcalled' = qcalled \cup {"pg.query"}
                 /\ qpc' = "awaitDriver"
                 /\ UNCHANGED <<qres, qcause>>
            ELSE LET err == [name |-> "Error",
                             message |-> "Database connection closed"] IN
                 /\ qres' = WrapQueryError(err)
                 /\ qcause' = [from |-> "closed", name |-> err.name,
                               message |-> err.message]
                 /\ qpc' = "idle"
                 /\ UNCHANGED qcalled
       [] qdb.type \in {"mysql", "mariadb"} ->
            /\ qcalled' = qcalled \cup {"mysql.execute"}
            /\ qpc' = "awaitDriver"
            /\ UNCHANGED <<qres, qcause>>
       [] qdb.type \in {"mssql", "sqlserver"} ->
            /\ qcalled' = qcalled \cup {"mssql.connect"}
            /\ qpc' = "awaitConnect"
            /\ UNCHANGED <<qres, qcause>>
       [] OTHER ->
            LET err == [name |-> "Error",
                        message |-> "Unsupported database type: " \o qdb.type]
            IN /\ qres' = WrapQueryError(err)
               /\ qcause' = [from |-> "unsupported", name |-> err.name,
                             message |-> err.message]
               /\ qpc' = "idle"
               /\ UNCHANGED qcalled
  /\ UNCHANGED <<web, fn, envFile, procEnv, connections, pools, booted, epoch,
                 rpc, riter, rlog, endFail, rstart, rprev, lastProj, rresp,
                 obs, qid, qdb, qcount, openConns>>
  /\ UNCHANGED login

\* a rejected driver promise reaches the catch block of query()
QueryFails(err) ==
  /\ qres' = WrapQueryError(err)
  /\ qcause' = [from |-> "driver", name |-> err.name, message |-> err.message]
  /\ qpc' = "idle"

\* connection.query / connection.execute settles (postgres, mysql)
QuerySettle ==
  /\ qpc = "awaitDriver"
  /\ \/ /\ qres' = [settled |-> TRUE, threw |-> FALSE, message |-> ""]
        /\ qpc' = "idle"
        /\ UNCHANGED qcause
     \/ \E err \in DriverErrors : QueryFails(err)
  /\ UNCHANGED <<web, fn, envFile, procEnv, connections, pools, booted, epoch,
                 rpc, riter, rlog, endFail, rstart, rprev, lastProj, rresp,
                 obs, qid, qdb, qcalled, qcount, openConns>>
  /\ UNCHANGED login

\* sql.connect(connection.config) settles; on success the statement is sent
MssqlConnectSettle ==
  /\ qpc = "awaitConnect"
  /\ \/ /\ openConns' = openConns + 1
        /\ qcalled' = qcalled \cup {"mssql.query"}
        /\ qpc' = "awaitMssqlQuery"
        /\ UNCHANGED <<qres, qcause>>
     \/ /\ \E err \in DriverErrors : QueryFails(err)
        /\ UNCHANGED <<openConns, qcalled>>
  /\ UNCHANGED <<web, fn, envFile, procEnv, connections, pools, booted, epoch,
                 rpc, riter, rlog, endFail, rstart, rprev, lastProj, rresp,
                 obs, qid, qdb, qcount>>
  /\ UNCHANGED login

\* pool.request().query(sqlQuery) settles; on success pool.close() is called
MssqlQuerySettle ==
  /\ qpc = "awaitMssqlQuery"
  /\ \/ /\ qcalled' = qcalled \cup {"mssql.close"}
        /\ qpc' = "awaitClose"
        /\ UNCHANGED <<qres, qcause>>
     \/ /\ \E err \in DriverErrors : QueryFails(err)
        /\ UNCHANGED qcalled
  /\ UNCHANGED <<web, fn, envFile, procEnv, connections, pools, booted, epoch,
                 rpc, riter, rlog, endFail, rstart, rprev, lastProj, rresp,
                 obs, qid, qdb, qcount, openConns>>
  /\ UNCHANGED login

\* pool.close() settles and query() returns
MssqlCloseSettle ==
  /\ qpc = "awaitClose"
  /\ openConns' = openConns - 1
  /\ qres' = [settled |-> TRUE, threw |-> FALSE, message |-> ""]
  /\ qpc' = "idle"
  /\ UNCHANGED <<web, fn, envFile, procEnv, connections, pools, booted, epoch,
                 rpc, riter, rlog, endFail, rstart, rprev, lastProj, rresp,
                 obs, qid, qdb, qcalled, qcause, qcount>>
  /\ UNCHANGED login

\* ------------------------------------------------------ /api/databases
\* the columns of the table the row routes work on
Columns == <<"id", "name", "email">>
\* keys a row payload may hold: two columns of the table and a stranger
PayloadKeys == {"name", "email", "bogus"}

\* the row payloads (req.body.data): up to MaxKeys distinct keys, in any
\* order, each with a value of its own
Payloads ==
  {[i \in 1..Len(ks) |-> [key |-> ks[i], value |-> "v_" \o ks[i]]] :
     ks \in {s \in UNION {[1..n -> PayloadKeys] : n \in 0..MaxKeys} :
               \A i, j \in 1..Len(s) : i # j => s[i] # s[j]}}

\* Authorization headers a request may carry
AuthHeaders ==
  {Absent, "Bearer", "Bearer good", "Bearer expired", "Bearer forged"}
\* process.env.JWT_SECRET
JwtSecrets == {Absent, "your-secret-key-change-this", "s3cret"}

\* authHeader && authHeader.split(' ')[1]; Absent is undefined
Token(authHeader) ==
  CASE authHeader = "Bearer good" -> "good"
    [] authHeader = "Bearer expired" -> "expired"
    [] authHeader = "Bearer forged" -> "forged"
    [] OTHER -> Absent

\* jwt.verify(token, JWT_SECRET) finds no fault: only the token signed with
\* the secret and not yet expired passes
JwtVerifies(token, secret) == token = "good" /\ secret = "s3cret"

\* A middleware that lets every request with a token through
authenticateTokenAnyToken(authHeader, secret) ==
  IF Token(authHeader) = Absent
  THEN [next |-> FALSE, status |-> 401, error |-> "Authentication required"]
  ELSE [next |-> TRUE, status |-> 0, error |-> ""]

\* authenticateToken(req, res, next): next() or the answer it sends
authenticateToken(authHeader, secret) ==
  IF Token(authHeader) = Absent
  THEN [next |-> FALSE, status |-> 401, error |-> "Authentication required"]
  ELSE IF secret = Absent \/ secret = "your-secret-key-change-this"
  THEN [next |-> FALSE, status |-> 500,
        error |-> "Server configuration error"]
  ELSE IF ~JwtVerifies(Token(authHeader), secret)
  THEN [next |-> FALSE, status |-> 403, error |-> "Invalid or expired token"]
  ELSE [next |-> TRUE, status |-> 0, error |-> ""]

\* the routes of the router mounted on /api/databases
Routes ==
  {"list", "reload", "tables", "schema", "data", "update", "insert",
   "delete"}

\* DB_1_TYPE values of the files the routes run against
RouteTypes ==
  {"postgres", "postgresql", "mysql", "MariaDB", "mssql", "SQLServer",
   "oracle"}
\* :dbId values: the configured entry and one that is not configured
RouteIds == {"db_1", "zz"}

\* req.body.primaryValue is undefined (the key is not in the body)
Undefined == "<undefined>"
\* req.query.limit / req.query.offset is not given
NoParam == -1

\* A test that only looks at primaryKey
RowKeyMissingKeyOnly(primaryKey, primaryValue) == primaryKey = Absent

\* !primaryKey || primaryValue === undefined
RowKeyMissing(primaryKey, primaryValue) ==
  primaryKey = Absent \/ primaryValue = Undefined

\* res.status(status).json(body)
Respond(w, status, body) ==
  [w EXCEPT !.pc = "done", !.status = status, !.body = body]

\* dbManager.query(dbId, stmt.text, stmt.params) up to the promise of its
\* driver call; next: where the handler waits for it
CallQuery(w, dbId, stmt, next) ==
  LET g == QueryLookup(connections, dbId)
      w1 == [w EXCEPT !.calls = Append(@, "query")] IN
  IF g.threw THEN Respond(w1, 500, g.message)
  ELSE IF IsPostgres(g.db.type) /\ ~PgUsable(g.db, pools)
  THEN Respond(w1, 500,
               WrapQueryError([name |-> "Error",
                               message |-> "Database connection closed"])
                 .message)
  ELSE [w1 EXCEPT
          !.pc = next,
          !.sent = Append(@, [args |-> stmt.params,
                              call |-> DriverCall(g.db.type, stmt.text,
                                                  stmt.params),
                              binds |-> IF "binds" \in DOMAIN stmt
                                        THEN stmt.binds ELSE <<>>])]

\* const db = await dbManager.getConnection(dbId) of a route handler
RouteLookup(w, dbId) ==
  LET g == getConnection(connections, dbId) IN
  [w EXCEPT !.calls = Append(@, "getConnection"),
            !.type = g.db.type, !.database = g.db.database]

\* dbManager.getTableSchema(dbId, tableName, schema) up to its driver call
CallGetTableSchema(w, dbId, tableName, schema, next) ==
  LET g == getConnection(connections, dbId)
      w1 == [w EXCEPT !.calls = Append(@, "getTableSchema")] IN
  IF g.threw THEN Respond(w1, 500, g.message)
  ELSE LET st == getTableSchema(g.db.type, g.db.database, tableName, schema)
       IN IF st.threw THEN Respond(w1, 500, st.message)
          ELSE CallQuery([w1 EXCEPT !.type = g.db.type,
                                    !.database = g.db.database],
                         dbId, st, next)

\* what the database does with the statement of the data route on a table
\* of n rows.  PostgreSQL and MySQL take LIMIT/OFFSET with bound values;
\* Transact-SQL has OFFSET only as part of ORDER BY and never next to TOP.
SelectPage(call, n) ==
  CASE call.fn \in {"pg.query", "mysql.execute"} ->
         LET l == call.params[1]
             o == call.params[2]
             rest == IF n > o THEN n - o ELSE 0 IN
         [ok |-> TRUE, rows |-> IF rest < l THEN rest ELSE l,
          err |-> [name |-> "", message |-> ""]]
    [] OTHER ->
         [ok |-> FALSE, rows |-> 0,
          err |-> [name |-> "RequestError",
                   message |-> "Incorrect syntax near 'OFFSET'."]]

\* a request reaches app.use('/api/databases', authenticateToken, ...)
Arrive(route, authHeader, secret) ==
  /\ booted
  /\ web.pc = "idle"
  /\ LET a == authenticateToken(authHeader, secret)
         w == [web EXCEPT !.route = route,
                          !.auth = [header |-> authHeader,
                                    secret |-> secret]] IN
       web' = IF a.next THEN [w EXCEPT !.pc = "authed"]
              ELSE Respond(w, a.status, a.error)
  /\ UNCHANGED <<fn, envFile, procEnv, connections, pools, booted, epoch,
                 rpc, riter, rlog, endFail, rstart, rprev, lastProj, rresp,
                 obs>>
  /\ UNCHANGED <<qvars, login>>

\* GET /: dbManager.getAllConnections()
ListDatabases ==
  /\ web.pc = "authed"
  /\ web.route = "list"
  /\ web' = Respond([web EXCEPT !.calls = <<"getAllConnections">>], 200,
                    getAllConnections(connections))
  /\ UNCHANGED <<fn, envFile, procEnv, connections, pools, booted, epoch,
                 rpc, riter, rlog, endFail, rstart, rprev, lastProj, rresp,
                 obs>>
  /\ UNCHANGED <<qvars, login>>

\* GET /:dbId/tables: dbManager.getTables(dbId) up to its driver call
GetTables(dbId) ==
  /\ web.pc = "authed"
  /\ web.route = "tables"
  /\ LET g == getConnection(connections, dbId)
         w == [web EXCEPT !.req = [dbId |-> dbId],
                          !.calls = <<"getTables">>] IN
       web' = IF g.threw THEN Respond(w, 500, g.message)
              ELSE LET st == getTables(g.db.type, g.db.database) IN
                   IF st.threw THEN Respond(w, 500, st.message)
                   ELSE CallQuery([w EXCEPT !.type = g.db.type,
                                            !.database = g.db.database],
                                  dbId, st, "awaitQuery")
  /\ UNCHANGED <<fn, envFile, procEnv, connections, pools, booted, epoch,
                 rpc, riter, rlog, endFail, rstart, rprev, lastProj, rresp,
                 obs>>
  /\ UNCHANGED <<qvars, login>>

\* GET /:dbId/tables/:tableName/schema up to the driver call
GetSchema(dbId, schema) ==
  /\ web.pc = "authed"
  /\ web.route = "schema"
  /\ web' = CallGetTableSchema(
              [web EXCEPT !.req = [dbId |-> dbId, schema |-> schema]],
              dbId, "users", schema, "awaitQuery")
  /\ UNCHANGED <<fn, envFile, procEnv, connections, pools, booted, epoch,
                 rpc, riter, rlog, endFail, rstart, rprev, lastProj, rresp,
                 obs>>
  /\ UNCHANGED <<qvars, login>>

\* GET /:dbId/tables/:tableName/data up to the driver call
GetData(dbId, schema, limitParam, offsetParam) ==
  /\ web.pc = "authed"
  /\ web.route = "data"
  /\ LET limit == IF limitParam = NoParam THEN 1000 ELSE limitParam
         offset == IF offsetParam = NoParam THEN 0 ELSE offsetParam
         g == getConnection(connections, dbId)
         w == RouteLookup([web EXCEPT !.req = [dbId |-> dbId,
                                               schema |-> schema,
                                               limit |-> limit,
                                               offset |-> offset]],
                          dbId) IN
       web' = IF g.threw THEN Respond(w, 500, g.message)
              ELSE CallQuery(w, dbId,
                             DataQuery(g.db.type, "users", schema, limit,
                                       offset),
                             "awaitData")
  /\ UNCHANGED <<fn, envFile, procEnv, connections, pools, booted, epoch,
                 rpc, riter, rlog, endFail, rstart, rprev, lastProj, rresp,
                 obs>>
  /\ UNCHANGED <<qvars, login>>

\* the database answers the statement of the data route; the table has n
\* rows
DataSettles(n) ==
  /\ web.pc = "awaitData"
  /\ LET r == SelectPage(web.sent[Len(web.sent)].call, n)
         w == [web EXCEPT !.req = [dbId |-> @.dbId, schema |-> @.schema,
                                   limit |-> @.limit, offset |-> @.offset,
                                   n |-> n]] IN
       web' = IF r.ok THEN Respond(w, 200, [rows |-> r.rows, count |-> r.rows])
              ELSE Respond(w, 500, WrapQueryError(r.err).message)
  /\ UNCHANGED <<fn, envFile, procEnv, connections, pools, booted, epoch,
                 rpc, riter, rlog, endFail, rstart, rprev, lastProj, rresp,
                 obs>>
  /\ UNCHANGED <<qvars, login>>

\* PUT /:dbId/tables/:tableName/row up to the driver call of getTableSchema
PutRow(dbId, primaryKey, primaryValue, data) ==
  /\ web.pc = "authed"
  /\ web.route = "update"
  /\ LET w == [web EXCEPT !.req = [dbId |-> dbId, primaryKey |-> primaryKey,
                                   primaryValue |-> primaryValue,
                                   data |-> data]] IN
       web' = IF RowKeyMissing(primaryKey, primaryValue)
              THEN Respond(w, 400, "Primary key and value required")
              ELSE IF getConnection(connections, dbId).threw
              THEN Respond(RouteLookup(w, dbId), 500,
                           getConnection(connections, dbId).message)
              ELSE CallGetTableSchema(RouteLookup(w, dbId), dbId, "users",
                                      Absent, "awaitSchema")
  /\ UNCHANGED <<fn, envFile, procEnv, connections, pools, booted, epoch,
                 rpc, riter, rlog, endFail, rstart, rprev, lastProj, rresp,
                 obs>>
  /\ UNCHANGED <<qvars, login>>

\* PUT row: the schema query settles; with its rows the UPDATE is built and
\* handed to dbManager.query
SchemaSettles ==
  /\ web.pc = "awaitSchema"
  /\ \/ \E err \in DriverErrors :
          web' = Respond(web, 500, WrapQueryError(err).message)
     \/ \E columns \in {Columns, <<>>} :
          web' = CallQuery([web EXCEPT !.columns = columns], web.req.dbId,
                           UpdateQuery(web.type, "users", web.req.primaryKey,
                                       web.req.primaryValue, web.req.data,
                                       columns),
                           "awaitQuery")
  /\ UNCHANGED <<fn, envFile, procEnv, connections, pools, booted, epoch,
                 rpc, riter, rlog, endFail, rstart, rprev, lastProj, rresp,
                 obs>>
  /\ UNCHANGED <<qvars, login>>

\* POST /:dbId/tables/:tableName/row up to the driver call
PostRow(dbId, data) ==
  /\ web.pc = "authed"
  /\ web.route = "insert"
  /\ LET g == getConnection(connections, dbId)
         w == RouteLookup([web EXCEPT !.req = [dbId |-> dbId,
                                               data |-> data]], dbId) IN
       web' = IF g.threw THEN Respond(w, 500, g.message)
              ELSE CallQuery(w, dbId, InsertQuery(g.db.type, "users", data),
                             "awaitQuery")
  /\ UNCHANGED <<fn, envFile, procEnv, connections, pools, booted, epoch,
                 rpc, riter, rlog, endFail, rstart, rprev, lastProj, rresp,
                 obs>>
  /\ UNCHANGED <<qvars, login>>

\* DELETE /:dbId/tables/:tableName/row up to the driver call
DeleteRow(dbId, primaryKey, primaryValue) ==
  /\ web.pc = "authed"
  /\ web.route = "delete"
  /\ LET g == getConnection(connections, dbId)
         w == [web EXCEPT !.req = [dbId |-> dbId, primaryKey |-> primaryKey,
                                   primaryValue |-> primaryValue]] IN
       web' = IF RowKeyMissing(primaryKey, primaryValue)
              THEN Respond(w, 400, "Primary key and value required")
              ELSE IF g.threw
              THEN Respond(RouteLookup(w, dbId), 500, g.message)
              ELSE CallQuery(RouteLookup(w, dbId), dbId,
                             DeleteQuery(g.db.type, "users", primaryKey,
                                         primaryValue),
                             "awaitQuery")
  /\ UNCHANGED <<fn, envFile, procEnv, connections, pools, booted, epoch,
                 rpc, riter, rlog, endFail, rstart, rprev, lastProj, rresp,
                 obs>>
  /\ UNCHANGED <<qvars, login>>

\* the driver call of dbManager.query settles and the handler answers
QuerySettles ==
  /\ web.pc = "awaitQuery"
  /\ \/ web' = Respond(web, 200, "ok")
     \/ \E err \in DriverErrors :
          web' = Respond(web, 500, WrapQueryError(err).message)
  /\ UNCHANGED <<fn, envFile, procEnv, connections, pools, booted, epoch,
                 rpc, riter, rlog, endFail, rstart, rprev, lastProj, rresp,
                 obs>>
  /\ UNCHANGED <<qvars, login>>

\* POST /reload: the handler calls dbManager.reloadConnections()
PostReload ==
  /\ web.pc = "authed"
  /\ web.route = "reload"
  /\ ReloadStart(1, {})

\* ------------------------------------------------- functions on their own
\* process.env contents parseEnvConfigs may find: any group may be absent
ParseTypes == {"postgres", "MySQL"}
ParseEnvs == [1..MaxIndex -> EnvGroups(ParseTypes)]

\* process.env with the one group DB_1_TYPE = type
OneGroupEnv(type) ==
  [n \in 1..MaxDb |-> IF n = 1 THEN [TYPE |-> type, ID |-> Absent]
                      ELSE [TYPE |-> Absent, ID |-> Absent]]

\* DB_<n>_TYPE spellings of the three dialects
DialectTypes ==
  {"postgres", "postgresql", "PostgreSQL", "mysql", "mariadb", "MariaDB",
   "mssql", "sqlserver", "SQLServer"}

\* what every operation that branches on the dialect does for an entry of
\* this type
Branches(type, a) ==
  LET c == createConnection([type |-> type], 1)
      ps == IF c.connection.pid # 0 THEN <<NewPool(c.connection.kind)>>
            ELSE <<>>
      db == [type |-> type, connection |-> c.connection] IN
  [createConnection |-> [threw |-> c.threw, kind |-> c.connection.kind],
   closeConnection |-> closeConnection(db, ps, FALSE).end,
   query |-> DriverCall(type, "SELECT 1", <<"p">>),
   getTables |-> getTables(type, "shop"),
   getTableSchema |-> getTableSchema(type, "shop", "users", a.schema),
   data |-> DataQuery(type, "users", a.schema, a.limit, a.offset),
   update |-> UpdateQuery(type, "users", "id", "pv", a.data, Columns),
   insert |-> InsertQuery(type, "users", a.data),
   delete |-> DeleteQuery(type, "users", "id", "pv")]

\* parseEnvConfigs() on a process.env of up to MaxIndex groups
ApplyParseEnvConfigs ==
  /\ fn = NoFn
  /\ \E env \in ParseEnvs :
       fn' = [op |-> "parseEnvConfigs", in |-> env,
              out |-> parseEnvConfigs(env)]
  /\ UNCHANGED <<web, envFile, procEnv, connections, pools, booted, epoch,
                 rpc, riter, rlog, endFail, rstart, rprev, lastProj, rresp,
                 obs>>
  /\ UNCHANGED <<qvars, login>>

\* parseEnvConfigs' option parsing, then createConnection's mssql branch
ApplyMssqlOptions ==
  /\ fn = NoFn
  /\ \E str \in OptionStrings :
       fn' = [op |-> "mssqlOptions", in |-> str,
              options |-> ParseOptions(str),
              out |-> MssqlOptions(ParseOptions(str))]
  /\ UNCHANGED <<web, envFile, procEnv, connections, pools, booted, epoch,
                 rpc, riter, rlog, endFail, rstart, rprev, lastProj, rresp,
                 obs>>
  /\ UNCHANGED <<qvars, login>>

\* a descriptor of some DB_1_TYPE spelling goes through parseEnvConfigs and
\* then through every operation that branches on its type
ApplyDialect ==
  /\ fn = NoFn
  /\ \E t \in DialectTypes, schema \in {Absent, "app"}, data \in Payloads,
        limit \in 0..MaxRows, offset \in 0..MaxRows :
       LET type == parseEnvConfigs(OneGroupEnv(t))[1].type
           a == [schema |-> schema, data |-> data, limit |-> limit,
                 offset |-> offset] IN
       fn' = [op |-> "dialect", in |-> t, type |-> type, args |-> a,
              out |-> Branches(type, a)]
  /\ UNCHANGED <<web, envFile, procEnv, connections, pools, booted, epoch,
                 rpc, riter, rlog, endFail, rstart, rprev, lastProj, rresp,
                 obs>>
  /\ UNCHANGED <<qvars, login>>

\* the registry lifecycle: startup and hot reloads; each reload remembers
\* the projection the reload before it yielded
Next ==
  \/ Boot
  \/ \E r \in Reloads : ReloadStart(r, {"rprev"})
  \/ \E r \in Reloads : ReloadResume(r, {"rprev"})
  \/ \E r \in Reloads : ReloadRespond(r)

Spec == Init /\ [][Next]_vars

\* the lifecycle, each reload remembering which of the entries it began
\* with it has yet to close
NextOverlap ==
  \/ Boot
  \/ \E r \in Reloads : ReloadStart(r, {"rstart"})
  \/ \E r \in Reloads : ReloadResume(r, {"rstart"})
  \/ \E r \in Reloads : ReloadRespond(r)

SpecOverlap == Init /\ [][NextOverlap]_vars

\* the lifecycle, remembering a reload whose first end() rejected
NextClose ==
  \/ Boot
  \/ \E r \in Reloads : ReloadStart(r, {"endFail"})
  \/ \E r \in Reloads : ReloadResume(r, {"endFail"})
  \/ \E r \in Reloads : ReloadRespond(r)

SpecClose == Init /\ [][NextClose]_vars

\* the lifecycle with registry reads arriving at any point of it
NextReq ==
  \/ Boot
  \/ \E r \in Reloads : ReloadStart(r, {})
  \/ \E r \in Reloads : ReloadResume(r, {})
  \/ \E r \in Reloads : ReloadRespond(r)
  \/ \E dbId \in ReqIds : GetConnectionReq(dbId)
  \/ GetAllReq

SpecReq == InitReq /\ [][NextReq]_vars

\* functions applied to inputs of their own, whatever the registry holds
NextFn ==
  \/ ApplyParseEnvConfigs
  \/ ApplyMssqlOptions
  \/ ApplyDialect

SpecFn == InitFn /\ [][NextFn]_vars

\* a .env file of one group, without DB_1_ID
InitRoutes ==
  /\ InitWith(RouteTypes)
  /\ envFile[1].ID = Absent
  /\ \A n \in 2..MaxDb : envFile[n].TYPE = Absent

\* the router of /api/databases behind authenticateToken, one request per
\* behaviour, against a registry of one entry
NextRoutes ==
  \/ Boot
  \/ \E route \in Routes, authHeader \in AuthHeaders, secret \in JwtSecrets :
       Arrive(route, authHeader, secret)
  \/ ListDatabases
  \/ PostReload
  \/ ReloadResume(1, {})
  \/ ReloadRespond(1)
  \/ \E dbId \in RouteIds : GetTables(dbId)
  \/ \E dbId \in RouteIds, schema \in {Absent, "app"} : GetSchema(dbId, schema)
  \/ \E dbId \in RouteIds, schema \in {Absent, "app"},
        limit \in {NoParam} \cup 0..MaxRows,
        offset \in {NoParam} \cup 0..MaxRows :
       GetData(dbId, schema, limit, offset)
  \/ \E n \in 0..MaxRows : DataSettles(n)
  \/ \E dbId \in RouteIds, primaryKey \in {Absent, "id"},
        primaryValue \in {Undefined, "pv"}, data \in Payloads :
       PutRow(dbId, primaryKey, primaryValue, data)
  \/ SchemaSettles
  \/ \E dbId \in RouteIds, data \in Payloads : PostRow(dbId, data)
  \/ \E dbId \in RouteIds, primaryKey \in {Absent, "id"},
        primaryValue \in {Undefined, "pv"} :
       DeleteRow(dbId, primaryKey, primaryValue)
  \/ QuerySettles

SpecRoutes == InitRoutes /\ [][NextRoutes]_vars

\* queries against the registry built at startup
NextQuery ==
  \/ Boot
  \/ \E dbId \in ReqIds : QueryStart(dbId)
  \/ QueryDispatch
  \/ QuerySettle
  \/ MssqlConnectSettle
  \/ MssqlQuerySettle
  \/ MssqlCloseSettle

SpecQuery == Init /\ [][NextQuery]_vars

\* ------------------------------------------------------------ login route
InitLogin == InitAll({}, LoginConfigs)

\* POST /api/auth/login arrives from clientIp
LoginArrives(clientIp, password) ==
  /\ login.pc = "idle"
  /\ login' = [login EXCEPT !.pc = "arrived",
                            !.req = [ip |-> clientIp, password |-> password],
                            !.resp = NoAnswer]
  /\ UNCHANGED <<web, fn, envFile, procEnv, connections, pools, booted, epoch,
                 rpc, riter, rlog, endFail, rstart, rprev, lastProj, rresp,
                 obs>>
  /\ UNCHANGED qvars

\* the handler runs, start to end, at Date.now() = login.now
LoginHandled ==
  /\ login.pc = "arrived"
  /\ LET ip == login.req.ip
         r == loginHandler(login.cfg, login.attempts, login.now, ip,
                           login.req.password)
         f == login.failed[ip]
     IN login' =
          [login EXCEPT
             !.pc = "idle",
             !.resp = [status |-> r.status, token |-> r.token,
                       error |-> r.error],
             !.attempts = r.attempts,
             !.failed[ip] =
               IF r.status = 200 THEN [count |-> 0, since |-> 0]
               ELSE IF r.status # 401 THEN f
               ELSE IF f.count > 0 /\ login.now <= f.since + WINDOW_MS
               THEN [f EXCEPT !.count = IF @ <= MAX_ATTEMPTS THEN @ + 1
                                        ELSE @]
               ELSE [count |-> 1, since |-> login.now]]
  /\ UNCHANGED <<web, fn, envFile, procEnv, connections, pools, booted, epoch,
                 rpc, riter, rlog, endFail, rstart, rprev, lastProj, rresp,
                 obs>>
  /\ UNCHANGED qvars

\* time passes: a millisecond, or a whole window
Tick(ms) ==
  /\ login.ticks < MaxTicks
  /\ login' = [login EXCEPT !.now = @ + ms, !.ticks = @ + 1]
  /\ UNCHANGED <<web, fn, envFile, procEnv, connections, pools, booted, epoch,
                 rpc, riter, rlog, endFail, rstart, rprev, lastProj, rresp,
                 obs>>
  /\ UNCHANGED qvars

NextLogin ==
  \/ \E clientIp \in ClientIps, password \in Passwords :
       LoginArrives(clientIp, password)
  \/ LoginHandled
  \/ \E ms \in {1, WINDOW_MS} : Tick(ms)

SpecLogin == InitLogin /\ [][NextLogin]_vars

\* ------------------------------------------------------------ properties
\* the descriptors process.env holds now
Configs == parseEnvConfigs(procEnv)
ConfiguredIds ==
  LET cfgs == Configs IN {cfgs[i].id : i \in 1..Len(cfgs)}
DistinctIds(cfgs) ==
  \A i, j \in 1..Len(cfgs) : i # j => cfgs[i].id # cfgs[j].id
EntriesFor(id) == {k \in 1..Len(connections) : connections[k].id = id}
\* the types createConnection builds a handle for
Supported ==
  {"postgres", "postgresql", "mysql", "mariadb", "mssql", "sqlserver"}

\* C1: with pairwise distinct descriptor ids, initializeConnections on an
\* empty registry (at startup, or after the clear of a reload) leaves exactly
\* one entry per descriptor, and getConnectionCount() is the number of
\* descriptors, whether or not createConnection failed for some of them.
C1_OneEntryPerDescriptor ==
  LET cfgs == Configs IN
  (booted /\ DistinctIds(cfgs)) =>
    /\ getConnectionCount(connections) = Len(cfgs)
    /\ \A i \in 1..Len(cfgs) : Cardinality(EntriesFor(cfgs[i].id)) = 1

C1_Witness ==
  /\ booted
  /\ Len(Configs) = MaxDb
  /\ DistinctIds(Configs)
  /\ getConnectionCount(connections) = MaxDb
  /\ \E k \in 1..Len(connections) : connections[k].status = "error"
  /\ \E k \in 1..Len(connections) : connections[k].status = "connected"

\* C2: a descriptor whose createConnection throws is stored with a null
\* connection, status 'error' and the thrown message; every descriptor whose
\* createConnection succeeds is stored with its handle and status
\* 'connected', before or after a failing one.  (Of two descriptors with one
\* id the later one is the one stored.)
C2_FailuresIsolated ==
  LET cfgs == Configs IN
  booted =>
    \A i \in 1..Len(cfgs) :
      (\A j \in (i + 1)..Len(cfgs) : cfgs[j].id # cfgs[i].id) =>
        /\ Cardinality(EntriesFor(cfgs[i].id)) = 1
        /\ LET db == connections[CHOOSE k \in EntriesFor(cfgs[i].id) : TRUE]
           IN /\ db.type = cfgs[i].type
              /\ IF cfgs[i].type \in Supported
                 THEN /\ db.status = "connected"
                      /\ db.error = ""
                      /\ db.connection.kind # "null"
                      /\ db.connection.kind \in {"pgPool", "mysqlPool"} =>
                           /\ db.connection.pid \in 1..Len(pools)
                           /\ pools[db.connection.pid].kind = db.connection.kind
                 ELSE /\ db.status = "error"
                      /\ db.connection = NullConnection
                      /\ db.error = "Unsupported database type: "
                                    \o cfgs[i].type

C2_Witness ==
  /\ booted
  /\ Len(Configs) = 2
  /\ Configs[1].type \notin Supported
  /\ Configs[2].type \in Supported
  /\ Len(connections) = 2
  /\ connections[1].status = "error"
  /\ connections[2].status = "connected"

\* C3: a getConnection or getAllConnections call that runs while a reload is
\* in progress sees a complete generation of the registry: one entry per
\* configured id, never an empty or partly populated registry.
C3_ReadsSeeCompleteGeneration ==
  (obs.op # "none" /\ obs.during # {}) =>
    /\ obs.op = "getAllConnections" =>
         /\ {obs.list[i].id : i \in 1..Len(obs.list)} = ConfiguredIds
         /\ Len(obs.list) = Cardinality(ConfiguredIds)
         /\ obs.list = getAllConnections(connections)
         /\ \A i, j \in 1..Len(connections) :
              connections[i].gen = connections[j].gen
    /\ obs.op = "getConnection" =>
         (obs.message = "Database " \o obs.id \o " not found"
            <=> obs.id \notin ConfiguredIds)

C3_Witness ==
  /\ obs.op = "getAllConnections"
  /\ obs.during # {}
  /\ Len(obs.list) = 2
  /\ \E r \in obs.during : Len(rlog[r]) >= 1
  /\ epoch >= 2

\* C4 (as claimed): the clear of a reload leaves the registry empty for
\* requests to see, re-population coming in a later step; a
\* getConnection(id) served there fails with 'Database <id> not found'.
C4_ClearLeavesEmptyRegistry ==
  [][(booted /\ epoch' # epoch) => connections' = <<>>]_vars

\* C4 (amended): no interleaving shows the cleared registry.  A
\* getConnection(id) for a configured id never fails with 'Database <id> not
\* found', whichever reload steps ran before it.
C4_ConfiguredIdAlwaysFound ==
  (obs.op = "getConnection" /\ obs.id \in ConfiguredIds) =>
    obs.message # "Database " \o obs.id \o " not found"

C4_Witness ==
  /\ obs.op = "getConnection"
  /\ obs.id \in ConfiguredIds
  /\ ~obs.threw
  /\ obs.during # {}
  /\ obs.db.gen >= 2

\* the close records of reload r, in order
Closes(r) == SelectSeq(rlog[r], LAMBDA e : e.op = "close")
IsPool(db) == db.connection.kind \in {"pgPool", "mysqlPool"}

\* C5 (as claimed): when reload r resolves, every entry that was in the
\* registry when it began has been passed to closeConnection by r.
C5_ClosesEntriesPresentAtStart ==
  \A r \in Reloads : rpc[r] = "resolved" => rstart[r] = <<>>

\* C5 (amended): when reload r resolves, its operations were: closeConnection
\* calls (end() called for an entry holding a postgres/mysql pool, nothing
\* for mssql entries and null handles), then the clear, then the
\* re-initialization; every entry that was in the registry when r cleared it
\* had been passed to closeConnection by r exactly once; and right after,
\* the registry held only entries created by that initialization.
C5_ReloadOrder ==
  \A r \in Reloads :
    rpc[r] = "resolved" =>
      LET n == Len(rlog[r])
          last == rlog[r][n]
          ids == ConfiguredIds IN
      /\ n >= 1
      /\ last.op = "clear+init"
      /\ \A i \in 1..(n - 1) :
           /\ rlog[r][i].op = "close"
           /\ rlog[r][i].end = "called" <=> IsPool(rlog[r][i].db)
           /\ IsPool(rlog[r][i].db) => pools[rlog[r][i].db.connection.pid].ended
           /\ IsPool(rlog[r][i].db) <=>
                rlog[r][i].db.type \in
                  {"postgres", "postgresql", "mysql", "mariadb"}
      /\ n - 1 = Len(last.cleared)
      /\ \A k \in 1..Len(last.cleared) :
           Cardinality({i \in 1..(n - 1) :
                          rlog[r][i].db = last.cleared[k]}) = 1
      /\ Len(last.after) = Cardinality(ids)
      /\ \A k \in 1..Len(last.after) :
           /\ last.after[k].id \in ids
           /\ \A j \in 1..Len(last.cleared) :
                last.after[k].gen > last.cleared[j].gen

C5_Witness ==
  \E r \in Reloads :
    /\ rpc[r] = "resolved"
    /\ Len(rlog[r]) = 3
    /\ Len(rlog[r][3].cleared) = 2
    /\ rlog[r][1].end = "called"
    /\ rlog[r][2].end = "none"
    /\ Len(rlog[r][3].after) = 2

\* C6: a reload that began after an earlier reload had resolved yields, with
\* the configuration file unchanged, the getAllConnections() projection that
\* the earlier reload yielded.
C6_ReloadIdempotent ==
  \A r \in Reloads :
    (rpc[r] = "resolved" /\ rprev[r].set) =>
      getAllConnections(rlog[r][Len(rlog[r])].after) = rprev[r].list

C6_Witness ==
  \E r \in Reloads :
    /\ rpc[r] = "resolved"
    /\ rprev[r].set
    /\ Len(rprev[r].list) = 2
    /\ \E i \in 1..2 : rprev[r].list[i].status = "connected"
    /\ \E i \in 1..2 : rprev[r].list[i].status = "error"

\* C7: a rejected end() never leaves closeConnection: no reload rejects, no
\* POST /reload answers 500, and the reload in which an end() rejected still
\* closes the entries after it, clears and re-populates.
C7_CloseFailureSwallowed ==
  \A r \in Reloads :
    /\ rpc[r] # "rejected"
    /\ rresp[r].status # 500
    /\ rpc[r] = "done" => rresp[r].status = 200
    /\ (rpc[r] = "resolved" /\ endFail.r = r) =>
         LET last == rlog[r][Len(rlog[r])] IN
         /\ last.op = "clear+init"
         /\ \A k \in 1..Len(last.cleared) :
              \E i \in 1..(Len(rlog[r]) - 1) : rlog[r][i].db = last.cleared[k]
         /\ Len(connections) = Cardinality(ConfiguredIds)

C7_Witness ==
  \E r \in Reloads :
    /\ rpc[r] = "resolved"
    /\ endFail.r = r
    /\ endFail.at = 1
    /\ Len(rlog[r]) = 3
    /\ rlog[r][2].op = "close"
    /\ rlog[r][2].end = "called"
    /\ Len(connections) = 2

\* C8: getConnection(id) fails with 'Database <id> not found' when the
\* registry has no entry for id, with 'Database <id> is not connected:
\* <stored error>' when the entry's status is not 'connected', and returns
\* the entry otherwise; it never returns an entry of status 'error'.
C8_GetConnection ==
  obs.op = "getConnection" =>
    /\ EntriesFor(obs.id) = {} =>
         /\ obs.threw
         /\ obs.message = "Database " \o obs.id \o " not found"
    /\ \A k \in EntriesFor(obs.id) :
         IF connections[k].status # "connected"
         THEN /\ obs.threw
              /\ obs.message = "Database " \o obs.id \o " is not connected: "
                               \o connections[k].error
         ELSE /\ ~obs.threw
              /\ obs.db = connections[k]
    /\ ~obs.threw => obs.db.status # "error"

C8_Witness ==
  /\ obs.op = "getConnection"
  /\ obs.threw
  /\ obs.id = "db_1"
  /\ obs.message = "Database db_1 is not connected: Unsupported database type: oracle"

\* C9 (as claimed): a driver failure is rethrown with the message
\* 'Query failed: ' followed by the original message; a lookup failure keeps
\* its own message and the driver is not called.
C9_DriverFailureCarriesOriginalMessage ==
  (qpc = "idle" /\ qres.settled) =>
    /\ qcause.from = "driver" =>
         /\ qres.threw
         /\ qres.message = "Query failed: " \o qcause.message
    /\ qcause.from = "lookup" =>
         /\ qres.threw
         /\ qres.message = qcause.message
         /\ qcalled = {}

\* C9 (amended): a driver failure is rethrown with the message
\* 'Query failed: ' followed by the original message or, when that message
\* is empty, by the error's string form; a lookup failure (unknown id, entry
\* of status 'error') keeps the message getConnection gave it, and the
\* driver is not called.
C9_QueryFailureMessages ==
  (qpc = "idle" /\ qres.settled) =>
    /\ qcause.from = "driver" =>
         /\ qres.threw
         /\ qcalled # {}
         /\ qres.message = "Query failed: " \o (IF qcause.message # ""
                                                THEN qcause.message
                                                ELSE qcause.name)
    /\ qcause.from = "lookup" =>
         /\ qres.threw
         /\ qcalled = {}
         /\ IF EntriesFor(qid) = {}
            THEN qres.message = "Database " \o qid \o " not found"
            ELSE \A k \in EntriesFor(qid) :
                   /\ connections[k].status = "error"
                   /\ qres.message = "Database " \o qid
                        \o " is not connected: " \o connections[k].error
    /\ qres.threw <=> qcause.from # "none"

C9_Witness ==
  /\ qpc = "idle"
  /\ qres.settled
  /\ qcause.from = "driver"
  /\ qcause.message = ""
  /\ qres.message = "Query failed: AggregateError"
  /\ "mssql.query" \in qcalled

\* C10 (as claimed): once a query call has ended, whether it returned or
\* threw, no connection opened by sql.connect is still open.
C10_PerCallConnectionClosed ==
  qpc = "idle" => openConns = 0

\* --------------------------------------------- properties of the routes
\* the UPDATE a PUT row request handed to dbManager.query
UpdateSent == web.sent[2]
\* the value the driver binds to the b-th placeholder of the UPDATE
BoundValue(b) ==
  IF UpdateSent.binds[b] \in 1..Len(UpdateSent.call.params)
  THEN UpdateSent.call.params[UpdateSent.binds[b]]
  ELSE "<unbound>"

\* C11 (as claimed): a PUT row whose data holds one key that is a column of
\* the table and one that is not, in either order, sends an UPDATE whose SET
\* clause names the valid column only, whose placeholder for that column is
\* bound to the value given for it, and none of whose placeholders is bound
\* to the value of the unknown key.
C11_UpdateAltersOnlyValidColumn ==
  (/\ web.route = "update"
   /\ Len(web.sent) = 2
   /\ web.columns = Columns
   /\ Len(web.req.data) = 2
   /\ \E i, j \in 1..2 :
        /\ web.req.data[i].key \in {"name", "email"}
        /\ web.req.data[j].key = "bogus")
  =>
    LET valid == CHOOSE i \in 1..2 : web.req.data[i].key # "bogus"
        unknown == CHOOSE j \in 1..2 : web.req.data[j].key = "bogus" IN
    /\ UpdateSent.call.text \in
         {"UPDATE users SET " \o web.req.data[valid].key \o " = " \o p
            \o " WHERE id = " \o q : p, q \in {"?", "$1", "$2", "$3"}}
    /\ Len(UpdateSent.binds) = 2
    /\ BoundValue(1) = web.req.data[valid].value
    /\ BoundValue(2) = web.req.primaryValue
    /\ \A b \in 1..2 : BoundValue(b) # web.req.data[unknown].value

\* C12: a PUT row or DELETE row request whose primaryKey is missing or empty
\* or whose primaryValue is undefined is answered 400 'Primary key and value
\* required'; the handler calls neither getConnection nor getTableSchema nor
\* query, nothing is sent to a database and the registry stays as it was.
C12_MissingKeyAnswers400 ==
  (/\ web.route \in {"update", "delete"}
   /\ "primaryKey" \in DOMAIN web.req
   /\ (web.req.primaryKey = Absent \/ web.req.primaryValue = Undefined))
  =>
    /\ web.pc = "done"
    /\ web.status = 400
    /\ web.body = "Primary key and value required"
    /\ web.calls = <<>>
    /\ web.sent = <<>>
    /\ epoch = 1
    /\ connections =
         initializeConnections(<<>>, <<>>, EmptyEnv, envFile, 1).conns
    /\ \A p \in 1..Len(pools) : ~pools[p].ended

C12_Witness ==
  /\ web.route = "update"
  /\ web.status = 400
  /\ web.req.dbId = "db_1"
  /\ web.req.primaryKey = "id"
  /\ web.req.primaryValue = Undefined
  /\ Len(web.req.data) = 2
  /\ Len(connections) = 1
  /\ connections[1].status = "connected"

\* C13 (as claimed): the mssql config createConnection produces has
\* options.trustServerCertificate = true whatever the descriptor's options
\* say, and options.encrypt = true unless they set encrypt to false.
C13_MssqlTlsOptionsForced ==
  fn.op = "mssqlOptions" =>
    /\ fn.out.trustServerCertificate = TRUE
    /\ fn.out.encrypt = TRUE <=>
         ~("encrypt" \in DOMAIN fn.options /\ fn.options.encrypt = FALSE)

\* the request was turned away by authenticateToken
Unauthenticated ==
  \/ Token(web.auth.header) # "good"
  \/ web.auth.secret \in {Absent, "your-secret-key-change-this"}
\* no dbManager operation has run for the request
NothingInvoked ==
  /\ web.calls = <<>>
  /\ web.sent = <<>>
  /\ rpc[1] = "idle"
  /\ epoch = 1

\* C14 (as claimed): a request with no token is answered 401, one with an
\* invalid or expired token 403, and any request while JWT_SECRET is unset
\* or the placeholder 500; in none of these cases does a dbManager operation
\* run.
C14_AnyRequestWithoutSecretAnswered500 ==
  web.pc # "idle" =>
    /\ Token(web.auth.header) = Absent => web.status = 401
    /\ web.auth.secret \in {Absent, "your-secret-key-change-this"} =>
         web.status = 500
    /\ Unauthenticated => NothingInvoked

\* C14 (amended): a request with no token is answered 401, whatever
\* JWT_SECRET is; a request with a token is answered 500 while JWT_SECRET is
\* unset or the placeholder, and 403 when the token is invalid or expired;
\* in none of these cases does a dbManager operation run, and a handler runs
\* only for a request whose token verified.
C14_HandlersBehindAuthentication ==
  web.pc # "idle" =>
    LET tok == Token(web.auth.header)
        bad == web.auth.secret \in {Absent, "your-secret-key-change-this"}
    IN
    /\ tok = Absent => web.status = 401 /\ web.body = "Authentication required"
    /\ (tok # Absent /\ bad) =>
         web.status = 500 /\ web.body = "Server configuration error"
    /\ (tok # Absent /\ ~bad /\ tok # "good") =>
         web.status = 403 /\ web.body = "Invalid or expired token"
    /\ Unauthenticated => web.pc = "done" /\ NothingInvoked
    /\ (web.calls # <<>> \/ rpc[1] # "idle") => ~Unauthenticated

C14_Witness ==
  /\ web.pc = "done"
  /\ web.route = "delete"
  /\ web.auth.header = "Bearer expired"
  /\ web.auth.secret = "s3cret"
  /\ web.status = 403
  /\ Len(connections) = 1
  /\ connections[1].status = "connected"

\* C15: getAllConnections returns one element per registry entry, in the
\* registry's insertion order; each element holds id, name, type, status and
\* error and nothing else (so no host, port, user, password, database,
\* options or connection), error being null when the entry has none; the
\* call leaves the registry as it was.
C15_ListOmitsCredentials ==
  [][(obs'.op = "getAllConnections" /\ obs' # obs) =>
       /\ connections' = connections
       /\ pools' = pools
       /\ Len(obs'.list) = Len(connections)
       /\ \A i \in 1..Len(connections) :
            /\ DOMAIN obs'.list[i] = {"id", "name", "type", "status", "error"}
            /\ obs'.list[i].id = connections[i].id
            /\ obs'.list[i].name = connections[i].name
            /\ obs'.list[i].type = connections[i].type
            /\ obs'.list[i].status = connections[i].status
            /\ obs'.list[i].error = IF connections[i].status = "error"
                                    THEN connections[i].error ELSE Null
            /\ {"host", "port", "user", "password", "database", "options",
                "connection"} \subseteq DOMAIN connections[i]]_vars

C15_Witness ==
  /\ obs.op = "getAllConnections"
  /\ Len(obs.list) = 2
  /\ \E i, j \in 1..2 :
       /\ obs.list[i].status = "connected"
       /\ obs.list[i].error = Null
       /\ obs.list[j].status = "error"
       /\ obs.list[j].error \notin {Null, Absent}

\* the spelling each alias stands for
Canonical(type) ==
  CASE type = "postgresql" -> "postgres"
    [] type = "mariadb" -> "mysql"
    [] type = "sqlserver" -> "mssql"
    [] OTHER -> type

\* C16: a descriptor whose TYPE is postgresql, mariadb or sqlserver, in any
\* letter case, takes in createConnection, closeConnection, query, getTables,
\* getTableSchema and the data, update, insert and delete routes the branch
\* that postgres, mysql or mssql takes: the same driver call, statement
\* text, placeholders and parameter list.
C16_AliasesTakeSameBranch ==
  fn.op = "dialect" =>
    /\ fn.type \in Supported
    /\ fn.out = Branches(Canonical(fn.type), fn.args)
    /\ ~fn.out.createConnection.threw
    /\ fn.out.query.fn # "none"
    /\ ~fn.out.getTables.threw
    /\ ~fn.out.getTableSchema.threw

C16_Witness ==
  /\ fn.op = "dialect"
  /\ fn.in = "SQLServer"
  /\ fn.type = "sqlserver"
  /\ fn.out.query.fn = "mssql.query"
  /\ fn.args.schema # Absent
  /\ Len(fn.args.data) = 2

\* the smallest index whose DB_<n>_TYPE is absent or empty
FirstGap(env) ==
  CHOOSE n \in 1..(Len(env) + 1) :
    /\ n = Len(env) + 1 \/ env[n].TYPE = Absent
    /\ \A m \in 1..(n - 1) : env[m].TYPE # Absent

\* C17: parseEnvConfigs returns the descriptors of the indices below the
\* first index whose DB_<n>_TYPE is absent or empty, in ascending order, and
\* nothing of a group above that gap (nothing at all when DB_1_TYPE is
\* absent); each has id DB_<n>_ID, or 'db_<n>' when that is absent.
C17_ParseStopsAtFirstGap ==
  fn.op = "parseEnvConfigs" =>
    LET k == FirstGap(fn.in) - 1 IN
    /\ Len(fn.out) = k
    /\ fn.in[1].TYPE = Absent => fn.out = <<>>
    /\ \A i \in 1..k :
         /\ fn.out[i].id = IF fn.in[i].ID # Absent THEN fn.in[i].ID
                           ELSE "db_" \o ToString(i)
         /\ fn.out[i].type = toLowerCase(fn.in[i].TYPE)
         /\ fn.out[i].name = "Database " \o ToString(i)

C17_Witness ==
  /\ fn.op = "parseEnvConfigs"
  /\ fn.in[1].TYPE # Absent
  /\ fn.in[1].ID = Absent
  /\ fn.in[2].TYPE = Absent
  /\ fn.in[3].TYPE # Absent
  /\ Len(fn.out) = 1
  /\ fn.out[1].id = "db_1"

\* C18 (as claimed): for the schema route with no schema given the database
\* receives 'public' (postgres) or 'dbo' (mssql) as the value of the schema
\* filter of the column catalog statement; for mysql it receives the
\* entry's database name, whatever schema is asked for.
C18_SchemaFilterReceived ==
  (web.route = "schema" /\ Len(web.sent) = 1) =>
    LET call == web.sent[1].call
        received == IF Len(call.params) >= 1 THEN call.params[1]
                    ELSE "<unbound>" IN
    /\ (IsPostgres(web.type) /\ web.req.schema = Absent) =>
         received = "public"
    /\ (IsMssql(web.type) /\ web.req.schema = Absent) => received = "dbo"
    /\ IsMysql(web.type) => received = web.database

\* C19 (as claimed): for each dialect the data route with limit L and offset
\* O (1000 and 0 when not given) on a table of N rows answers with L rows
\* when N >= L + O and with max(0, N - O) rows otherwise.
C19_DataRoutePage ==
  (web.route = "data" /\ web.pc = "done" /\ "n" \in DOMAIN web.req) =>
    LET L == web.req.limit
        O == web.req.offset
        N == web.req.n IN
    /\ web.status = 200
    /\ web.body.rows = IF N >= L + O THEN L
                       ELSE IF N > O THEN N - O ELSE 0

\* the i-th placeholder in the dialect's style: $i for postgres, ? otherwise
ClaimedPlaceholder(type, i) ==
  IF IsPostgres(type) THEN "$" \o ToString(i) ELSE "?"

\* C20 (as claimed): for every data payload, the UPDATE of the row update
\* handler has the placeholders $1..$k for its k SET assignments and $(k+1)
\* in the WHERE clause (k+1 times '?' for mysql and mssql), and the
\* parameter list passed to query has k+1 elements: the values of the SET
\* columns in order, then primaryValue.
C20_UpdatePlaceholders ==
  (web.route = "update" /\ Len(web.sent) = 2) =>
    LET keys == FilterKeys(ObjectKeys(web.req.data), web.columns)
        k == Len(keys)
        valueOf(key) ==
          web.req.data[CHOOSE i \in 1..Len(web.req.data) :
                         web.req.data[i].key = key].value IN
    /\ web.sent[2].call.text =
         "UPDATE users SET "
         \o Join([i \in 1..k |->
                    keys[i] \o " = " \o ClaimedPlaceholder(web.type, i)],
                 ", ")
         \o " WHERE " \o web.req.primaryKey \o " = "
         \o ClaimedPlaceholder(web.type, k + 1)
    /\ Len(web.sent[2].args) = k + 1
    /\ \A i \in 1..k : web.sent[2].args[i] = valueOf(keys[i])
    /\ web.sent[2].args[k + 1] = web.req.primaryValue

\* pool p is the handle of an entry of the registry
Registered(p) ==
  \E k \in 1..Len(connections) : connections[k].connection.pid = p

\* C21 (as claimed): a pool that createConnection made and that is no longer
\* the handle of a registry entry (its entry was removed or replaced) has
\* had end() called on it, whatever initializeConnections and
\* reloadConnections calls ran, also with descriptors that share an id and
\* with reloads that overlap.
C21_PoolsClosedBeforeRemoval ==
  \A p \in 1..Len(pools) : ~Registered(p) => pools[p].ended

\* DB_<n>_TYPE values of the files queries and a reload run against: the two
\* kinds of pool
PoolTypes == {"postgres", "MariaDB"}
InitQueryReload == InitWith(PoolTypes)

\* queries arriving while one POST /reload is served
NextQueryReload ==
  \/ Boot
  \/ ReloadStart(1, {})
  \/ ReloadResume(1, {})
  \/ ReloadRespond(1)
  \/ \E dbId \in ReqIds : QueryStart(dbId)
  \/ QueryDispatch
  \/ QuerySettle

SpecQueryReload == InitQueryReload /\ [][NextQueryReload]_vars

\* C22 (as claimed): whenever query() calls the driver on the pool of a
\* postgres or mysql entry, end() has not been called on that pool, also
\* when the request interleaves with a reloadConnections suspended between
\* closing the entries and clearing the registry.
C22_NoDispatchToClosedPool ==
  [][(qpc = "lookedUp" /\ qpc' = "awaitDriver") =>
       ~pools[qdb.connection.pid].ended]_vars

\* C23: when two reloadConnections calls overlapped, then, once no reload is
\* suspended any more, the registry holds exactly one entry per configured
\* id, every entry with status 'connected' that holds a pool holds one on
\* which end() has not been called, and every entry was created by the
\* latest initializeConnections.
C23_OverlappingReloadsLeaveFreshRegistry ==
  (booted /\ Reloading = {}) =>
    /\ {connections[k].id : k \in 1..Len(connections)} = ConfiguredIds
    /\ \A id \in ConfiguredIds : Cardinality(EntriesFor(id)) = 1
    /\ \A k \in 1..Len(connections) :
         /\ connections[k].gen = epoch
         /\ (connections[k].status = "connected"
             /\ connections[k].connection.pid # 0) =>
              ~pools[connections[k].connection.pid].ended

\* reload 2 began while reload 1 was suspended, reload 1 cleared the
\* registry under it, and both have resolved
C23_Witness ==
  /\ rpc[1] \in {"resolved", "done"}
  /\ rpc[2] = "resolved"
  /\ rstart[2] # <<>>
  /\ epoch = 3
  /\ \E k \in 1..Len(connections) :
       /\ connections[k].status = "connected"
       /\ connections[k].connection.pid # 0

\* DB_<n>_TYPE values of the files that are edited between loads
EditTypes == {"postgres"}
InitEdit == InitWith(EditTypes)

\* the .env file is rewritten on disk: groups are added, deleted or changed
EditFile(file) ==
  /\ booted
  /\ file # envFile
  /\ \A n \in 1..MaxDb : file[n].TYPE = Absent => file[n].ID = Absent
  /\ envFile' = file
  /\ UNCHANGED <<web, fn, procEnv, connections, pools, booted, epoch, rpc,
                 riter, rlog, endFail, rstart, rprev, lastProj, rresp, obs>>
  /\ UNCHANGED <<qvars, login>>

\* one POST /reload, with the file edited at any time after startup
NextEdit ==
  \/ Boot
  \/ \E file \in [1..MaxDb -> EnvGroups(EditTypes)] : EditFile(file)
  \/ ReloadStart(1, {})
  \/ ReloadResume(1, {})
  \/ ReloadRespond(1)

SpecEdit == InitEdit /\ [][NextEdit]_vars

\* the ids and types of a sequence of descriptors or entries
IdsAndTypes(seq) == {<<seq[i].id, seq[i].type>> : i \in 1..Len(seq)}

\* C24 (as claimed): when reloadConnections re-populates the registry, the
\* registry holds the databases of the configuration file as it is at that
\* time: a database whose group was added to the file is there, one whose
\* group was deleted from the file since the previous load is not.
C24_RegistryReflectsFile ==
  [][(booted /\ epoch' = epoch + 1) =>
       IdsAndTypes(connections') = IdsAndTypes(parseEnvConfigs(envFile))]_vars

\* the counter the handler finds for clientIp at time now: the stored one
\* while its reset time has not passed, 0 otherwise
CounterOf(attempts, clientIp, now) ==
  IF attempts[clientIp].set /\ ~(attempts[clientIp].resetTime < now)
  THEN attempts[clientIp].count
  ELSE 0

\* clientIp has been answered 401 MAX_ATTEMPTS times in a row since its last
\* successful login, and the window that began with the first of these
\* answers has not passed
Limited(clientIp) ==
  /\ login.failed[clientIp].count >= MAX_ATTEMPTS
  /\ login.now <= login.failed[clientIp].since + WINDOW_MS

\* C25: a login from an IP that has failed 5 times in the current window,
\* with no successful login in between, is answered 429, gets no token and
\* leaves loginAttempts as it is, whatever its password, until the window's
\* reset time has passed; a token is issued only for the configured
\* password and a counter below 5, and a successful login deletes the IP's
\* counter; the counters of other IPs are not touched.
C25_LoginRateLimit ==
  [][(login.pc = "arrived" /\ login'.pc = "idle") =>
       LET ip == login.req.ip IN
       /\ Limited(ip) =>
            /\ login'.resp.status = 429
            /\ login'.resp.token = Absent
            /\ login'.attempts = login.attempts
       /\ login'.resp.token # Absent =>
            /\ login'.resp.status = 200
            /\ login.req.password = login.cfg.PASSWORD
            /\ login.cfg.PASSWORD # Absent
            /\ CounterOf(login.attempts, ip, login.now) < MAX_ATTEMPTS
            /\ ~login'.attempts[ip].set
       /\ login'.resp.status = 200 => login'.resp.token # Absent
       /\ \A other \in ClientIps \ {ip} :
            login'.attempts[other] = login.attempts[other]]_vars

\* the fifth failure came a whole window ago to the millisecond, and the
\* right password is still turned away
C25_Witness ==
  /\ login.pc = "idle"
  /\ login.resp.status = 429
  /\ login.req.password = login.cfg.PASSWORD
  /\ login.failed[login.req.ip].count = MAX_ATTEMPTS
  /\ login.now = login.failed[login.req.ip].since + WINDOW_MS
  /\ login.attempts[login.req.ip].count = MAX_ATTEMPTS
  /\ \E other \in ClientIps : login.attempts[other].set
                              /\ login.attempts[other].count < MAX_ATTEMPTS
====
